---- MODULE Spec2Model ----
(***************************************************************************)
(* A state-machine model of the PhysicsLLM simulation engine:              *)
(* PhysicsEngine (body registry, constraints, clock, event log, drag,      *)
(* the sub-stepped step() pipeline), ConstraintSystem.solve,               *)
(* CollisionSystem (SAT detection and resolution), FluidSystem on GPGPU    *)
(* ping-pong buffers, and the headless PhysicsNemo runner that shares the  *)
(* module-level identifier counter.                                        *)
(*                                                                         *)
(* Numbers.  The program computes in IEEE doubles; the model computes in   *)
(* fixed point over the integers, rounding to nearest after every          *)
(* multiplication by a fractional quantity:                                *)
(*   lengths     PosScale units per metre (0.1 m resolution)               *)
(*   time        seconds; one frame is DT seconds                          *)
(*   velocities  length units per second                                   *)
(*   masses      MassScale units per kilogram                              *)
(*   invMass     InvScale units per 1/kg                                   *)
(*   unit vectors (axes, normals, tangents)  NormScale units per 1         *)
(*   stiffness, friction                     Pct units per 1               *)
(*   angles      quarter turns, so that cos and sin are exact              *)
(* In the config record of add the value 0 (FALSE, "none") stands for an   *)
(* absent field: the program reads every such field through                *)
(* `x || default`, which treats 0 and undefined alike.  The config of      *)
(* connect is a record that has a field only where the caller supplied it. *)
(***************************************************************************)
EXTENDS Integers, Sequences, FiniteSets, TLC

PosScale == 10
MassScale == 10
InvScale == 1000
NormScale == 1000
Pct == 100

\* constants.ts is not among the sources: DT and GRAVITY are fixed here in
\* model units (DT = 1 s per frame, g = 9.8 m/s^2), MATERIALS by a table
\* with a default entry and the material names of types.ts.
DT == 1
GRAVITY == 98
MATERIALS ==
  [default  |-> [restitution |-> 50, friction |-> 50],
   steel    |-> [restitution |-> 20, friction |-> 40],
   wood     |-> [restitution |-> 40, friction |-> 60],
   rubber   |-> [restitution |-> 90, friction |-> 90],
   concrete |-> [restitution |-> 10, friction |-> 80],
   cloth    |-> [restitution |-> 10, friction |-> 70]]

\* PhysicsEngine fields set at construction
subSteps == 8
constraintIterations == 5
\* PhysicsEngine.log keeps at most this many entries
LogCap == 50

-----------------------------------------------------------------------------
(* Fixed-point arithmetic *)

Abs(a) == IF a < 0 THEN -a ELSE a
Sgn(a) == IF a < 0 THEN -1 ELSE 1
Min(a, b) == IF a < b THEN a ELSE b
Max(a, b) == IF a > b THEN a ELSE b

\* a / b rounded to the nearest integer, halves away from zero
Rnd(a, b) == Sgn(a) * Sgn(b) * ((2 * Abs(a) + Abs(b)) \div (2 * Abs(b)))

RECURSIVE SqrtIter(_, _, _)
SqrtIter(n, lo, hi) ==
  IF lo = hi THEN lo
  ELSE LET mid == (lo + hi + 1) \div 2
       IN  IF mid * mid <= n THEN SqrtIter(n, mid, hi)
                             ELSE SqrtIter(n, lo, mid - 1)

\* Math.sqrt, rounded to the nearest integer
Sqrt(n) ==
  LET r == SqrtIter(n, 0, 46340)
  IN  IF n - r * r > r THEN r + 1 ELSE r

\* Math.cos and Math.sin of an angle given in quarter turns
Cos(a) == CASE a % 4 = 0 -> 1 [] a % 4 = 1 -> 0 [] a % 4 = 2 -> -1 [] OTHER -> 0
Sin(a) == CASE a % 4 = 0 -> 0 [] a % 4 = 1 -> 1 [] a % 4 = 2 -> 0 [] OTHER -> -1

-----------------------------------------------------------------------------
(* Vec2 (services/physics/math.ts) *)

Vec(x, y) == [x |-> x, y |-> y]
Vec2add(v1, v2) == Vec(v1.x + v2.x, v1.y + v2.y)
Vec2sub(v1, v2) == Vec(v1.x - v2.x, v1.y - v2.y)
\* mul by an integer scalar
Vec2mul(v, s) == Vec(v.x * s, v.y * s)
\* mul by the fractional scalar num/den
Vec2scale(v, num, den) == Vec(Rnd(v.x * num, den), Rnd(v.y * num, den))
Vec2div(v, s) == Vec(Rnd(v.x, s), Rnd(v.y, s))
Vec2dot(v1, v2) == v1.x * v2.x + v1.y * v2.y
Vec2lenSq(v) == v.x * v.x + v.y * v.y
Vec2dist(v1, v2) == Sqrt((v1.x - v2.x) * (v1.x - v2.x) + (v1.y - v2.y) * (v1.y - v2.y))
\* the unit vector, in NormScale units
Vec2normalize(v) ==
  LET l == Sqrt(v.x * v.x + v.y * v.y)
  IN  IF l = 0 THEN Vec(0, 0)
      ELSE Vec(Rnd(v.x * NormScale, l), Rnd(v.y * NormScale, l))
Vec2rotate(v, angle) ==
  Vec(v.x * Cos(angle) - v.y * Sin(angle), v.x * Sin(angle) + v.y * Cos(angle))
Vec2perp(v) == Vec(-v.y, v.x)

-----------------------------------------------------------------------------
(* Identifiers *)

\* generateId yields `obj_${n}`; connect prefixes it with c_
ObjId(n) == <<"obj", n>>
ConId(n) == <<"c", "obj", n>>

\* Map.set: the entry for key k now refers to v
MapSet(m, k, v) == [j \in DOMAIN m \cup {k} |-> IF j = k THEN v ELSE m[j]]

-----------------------------------------------------------------------------
(* The engine as a value.  An engine record holds the fields of one          *)
(* PhysicsEngine together with the module-level idCounter it shares; objects *)
(* are referred to by their index in `objects` (objectMap and draggedObj     *)
(* hold references to the same objects as the list).  ret is the index of    *)
(* the object the last add returned.                                         *)

EmptyMap == [k \in {} |-> 0]

\* updateGeometry: the four corners of a box from its position and angle
updateGeometry(obj) ==
  IF obj.type = "box"
  THEN LET hw == Rnd(obj.width, 2)
           hh == Rnd(obj.height, 2)
           locals == << Vec(-hw, -hh), Vec(hw, -hh), Vec(hw, hh), Vec(-hw, hh) >>
       IN  [obj EXCEPT !.vertices =
              [k \in 1..4 |-> Vec2add(obj.pos, Vec2rotate(locals[k], obj.angle))]]
  ELSE obj

\* toFixed(2) of the clock, in hundredths of a second
ToFixed2(t) == t * 100

\* a log that drops the entry it has just pushed when it is full
ElogDroppingNewest(e, msg) ==
  LET pushed == Append(e.logs, [t |-> ToFixed2(e.time), msg |-> msg])
  IN  [e EXCEPT !.logs = IF Len(pushed) > LogCap
                         THEN SubSeq(pushed, 1, LogCap) ELSE pushed]
\* log(msg): push, then drop the oldest entry beyond LogCap
Elog(e, msg) ==
  LET pushed == Append(e.logs, [t |-> ToFixed2(e.time), msg |-> msg])
  IN  [e EXCEPT !.logs = IF Len(pushed) > LogCap THEN Tail(pushed) ELSE pushed]

\* the object literal of add()
ObjLiteral(id, type, config) ==
  LET matProps == IF config.material # "none" THEN MATERIALS[config.material]
                                              ELSE MATERIALS["default"]
      pos == Vec(config.x, config.y)
      vel == Vec(config.vx, config.vy)
      width == IF config.width # 0 THEN config.width
               ELSE IF type = "box" THEN PosScale ELSE 0
      height == IF config.height # 0 THEN config.height
                ELSE IF type = "box" THEN PosScale ELSE 0
      radius == IF config.radius # 0 THEN config.radius
                ELSE IF type = "circle" THEN PosScale \div 2 ELSE 0
      mass == IF config.fixed THEN 0
              ELSE IF config.mass # 0 THEN config.mass ELSE MassScale
      invMass == IF mass = 0 THEN 0 ELSE Rnd(InvScale * MassScale, mass)
      inertia == IF mass > 0
                 THEN IF type = "box"
                      THEN Rnd(mass * (width * width + height * height), 12)
                      ELSE IF type = "circle" THEN Rnd(mass * radius * radius, 2)
                      ELSE 0
                 ELSE 0
      invInertia == IF inertia = 0 \/ config.fixed THEN 0
                    ELSE Rnd(InvScale * MassScale * PosScale * PosScale, inertia)
  IN  [id |-> id, type |-> type, mass |-> mass, invMass |-> invMass,
       inertia |-> inertia, invInertia |-> invInertia,
       pos |-> pos, oldPos |-> Vec2sub(pos, Vec2mul(vel, DT)),
       vel |-> vel, force |-> Vec(0, 0),
       angle |-> config.angle, oldAngle |-> config.angle,
       restitution |-> matProps.restitution, friction |-> matProps.friction,
       width |-> width, height |-> height, radius |-> radius,
       fixed |-> config.fixed, vertices |-> << >>]

\* a plane that is made a wide fixed box but keeps the inverse mass and
\* inverse inertia of its config
AsPlaneKeepingMass(obj) ==
  [obj EXCEPT !.type = "box",
              !.width = 1000 * PosScale,
              !.height = PosScale,
              !.fixed = TRUE,
              !.pos = Vec(obj.pos.x, obj.pos.y - PosScale \div 2),
              !.oldPos = Vec(obj.oldPos.x, obj.pos.y - PosScale \div 2)]
\* the plane canonicalisation of add(): `if (type === 'plane') { ... }`
AsPlane(obj) ==
  [obj EXCEPT !.type = "box",
              !.width = 1000 * PosScale,
              !.height = PosScale,
              !.fixed = TRUE,
              !.invMass = 0,
              !.invInertia = 0,
              !.pos = Vec(obj.pos.x, obj.pos.y - PosScale \div 2),
              !.oldPos = Vec(obj.oldPos.x, obj.pos.y - PosScale \div 2)]

\* an add() whose literal has `oldAngle: 0`
NewBodyOldAngleZero(id, type, config) ==
  IF type = "plane" THEN AsPlane([ObjLiteral(id, type, config) EXCEPT !.oldAngle = 0])
  ELSE [ObjLiteral(id, type, config) EXCEPT !.oldAngle = 0]
\* the object add() builds, before its geometry is computed
NewBody(id, type, config) ==
  IF type = "plane" THEN AsPlane(ObjLiteral(id, type, config))
  ELSE ObjLiteral(id, type, config)

\* this.objects.push(obj); this.objectMap.set(obj.id, obj); this.log(...)
Register(e, obj, type) ==
  Elog([e EXCEPT !.idCounter = e.idCounter + 1,
                 !.objects = Append(e.objects, obj),
                 !.objectMap = MapSet(e.objectMap, obj.id, Len(e.objects) + 1),
                 !.ret = Len(e.objects) + 1],
       <<"Added", type, obj.id>>)

\* add() for box, circle and plane
AddShape(e, type, config) ==
  Register(e, updateGeometry(NewBody(ObjId(e.idCounter + 1), type, config)), type)

\* config.field || fallback: the field where it is supplied and truthy
OrElse(config, field, fallback) ==
  IF field \in DOMAIN config /\ config[field] # 0 THEN config[field] ELSE fallback

\* a connect that draws the constraint's id before it looks the bodies up
connectDrawingIdFirst(e, idA, idB, config) ==
  IF idA \notin DOMAIN e.objectMap \/ idB \notin DOMAIN e.objectMap
  THEN [e EXCEPT !.idCounter = e.idCounter + 1]
  ELSE [e EXCEPT !.idCounter = e.idCounter + 1,
                 !.constraints =
                   Append(e.constraints,
                     [id |-> ConId(e.idCounter + 1), bodyA |-> idA, bodyB |-> idB,
                      length |-> OrElse(config, "length",
                                   Vec2dist(e.objects[e.objectMap[idA]].pos,
                                            e.objects[e.objectMap[idB]].pos)),
                      stiffness |-> OrElse(config, "stiffness", Pct \div 2)])]
\* connect(idA, idB, config)
connect(e, idA, idB, config) ==
  IF idA \notin DOMAIN e.objectMap \/ idB \notin DOMAIN e.objectMap THEN e
  ELSE LET objA == e.objects[e.objectMap[idA]]
           objB == e.objects[e.objectMap[idB]]
           dist == Vec2dist(objA.pos, objB.pos)
           n == e.idCounter + 1
           constraint == [id |-> ConId(n), bodyA |-> idA, bodyB |-> idB,
                          length |-> OrElse(config, "length", dist),
                          stiffness |-> OrElse(config, "stiffness", Pct \div 2)]
       IN  [e EXCEPT !.idCounter = n,
                     !.constraints = Append(e.constraints, constraint)]

\* addCloth: the config of particle (x, y) of the grid
ClothParticle(config, x, y) ==
  LET segX == IF config.segmentsX # 0 THEN config.segmentsX ELSE 10
      segY == IF config.segmentsY # 0 THEN config.segmentsY ELSE 10
      w == IF config.width # 0 THEN config.width ELSE 4 * PosScale
      h == IF config.height # 0 THEN config.height ELSE 4 * PosScale
      startX == config.x - Rnd(w, 2)
      startY == config.y + Rnd(h, 2)
  IN  [mass |-> MassScale \div 10, material |-> "cloth",
       x |-> startX + Rnd(x * w, segX), y |-> startY - Rnd(y * h, segY),
       width |-> 0, height |-> 0, radius |-> PosScale \div 10,
       fixed |-> config.pinTop /\ y = 0,
       vx |-> 0, vy |-> 0, angle |-> 0,
       segmentsX |-> 0, segmentsY |-> 0, pinTop |-> FALSE]

\* row.push(p.id) for the particle the add call returned in e1
Pushed(e1, grid) == [e |-> e1, grid |-> Append(grid, e1.objects[e1.ret].id)]

\* addCloth, first loop: particle n of the grid, row by row; p holds the
\* engine and the ids of the grid so far
RECURSIVE ClothParticles(_, _, _, _)
ClothParticles(p, config, segX, n) ==
  IF Len(p.grid) = n THEN p
  ELSE ClothParticles(
         Pushed(AddShape(p.e, "circle",
                  ClothParticle(config, Len(p.grid) % (segX + 1),
                                Len(p.grid) \div (segX + 1))), p.grid),
         config, segX, n)

\* the constraint config of the cloth
ClothLink == [stiffness |-> (8 * Pct) \div 10]

\* addCloth, second loop: the structural constraints of grid cell n
LinkRight(e, grid, segX, n) ==
  IF n % (segX + 1) < segX THEN connect(e, grid[n + 1], grid[n + 2], ClothLink) ELSE e
\* a second loop that reads the row below as if rows had segX particles
LinkDownShort(e, grid, segX, segY, n) ==
  IF n \div (segX + 1) < segY
  THEN connect(e, grid[n + 1], grid[n + 1 + segX], ClothLink) ELSE e
LinkDown(e, grid, segX, segY, n) ==
  IF n \div (segX + 1) < segY
  THEN connect(e, grid[n + 1], grid[n + 1 + segX + 1], ClothLink) ELSE e

\* (the registry holds the particles of the grid, so it is not empty)
RECURSIVE ClothConstraints(_, _, _, _, _)
ClothConstraints(e, grid, segX, segY, n) ==
  IF n = Len(grid) \/ e.objects = << >> THEN e
  ELSE ClothConstraints(LinkDown(LinkRight(e, grid, segX, n), grid, segX, segY, n),
                        grid, segX, segY, n + 1)

\* return this.objectMap.get(grid[0][0])
ClothHandle(e, grid) == [e EXCEPT !.ret = e.objectMap[grid[1]]]

\* the second loop and the return of addCloth, after the first loop gave p
ClothLinked(p, segX, segY) ==
  ClothHandle(ClothConstraints(p.e, p.grid, segX, segY, 0), p.grid)

ClothGrid(e, config, segX, segY) ==
  ClothLinked(ClothParticles([e |-> e, grid |-> << >>], config, segX,
                             (segX + 1) * (segY + 1)), segX, segY)

addCloth(e, config) ==
  ClothGrid(e, config,
            IF config.segmentsX # 0 THEN config.segmentsX ELSE 10,
            IF config.segmentsY # 0 THEN config.segmentsY ELSE 10)

\* add(type, config)
add(e, type, config) ==
  IF type = "cloth" THEN addCloth(e, config) ELSE AddShape(e, type, config)

\* a reset that leaves the event log as it is
resetKeepingLogs(e) ==
  [e EXCEPT !.objects = << >>, !.objectMap = EmptyMap, !.constraints = << >>,
            !.time = 0, !.idCounter = 0, !.draggedObj = 0]
\* a reset that leaves the objects array as it is
resetKeepingObjects(e) ==
  [e EXCEPT !.objectMap = EmptyMap, !.constraints = << >>,
            !.time = 0, !.logs = << >>, !.idCounter = 0, !.draggedObj = 0]
\* a reset that leaves the drag target as it is
resetKeepingDrag(e) ==
  [e EXCEPT !.objects = << >>, !.objectMap = EmptyMap, !.constraints = << >>,
            !.time = 0, !.logs = << >>, !.idCounter = 0]
\* reset()
reset(e) ==
  [e EXCEPT !.objects = << >>, !.objectMap = EmptyMap, !.constraints = << >>,
            !.time = 0, !.logs = << >>, !.idCounter = 0, !.draggedObj = 0]

-----------------------------------------------------------------------------
(* startDrag / updateDrag / endDrag on an engine record *)

\* startDrag: the index of the first body, newest first, that is not fixed
\* and passes the hit test; 0 when the loop ends without a hit
\* a hit test that does not pass over fixed bodies
RECURSIVE DragHitAny(_, _, _, _)
DragHitAny(objs, i, x, y) ==
  IF i < 1 THEN 0
  ELSE LET obj == objs[i]
           r == IF obj.type = "circle" THEN obj.radius
                ELSE Rnd(Max(obj.width, obj.height), 2)
       IN  IF Vec2dist(Vec(x, y), obj.pos) < r + PosScale \div 2 THEN i
           ELSE DragHitAny(objs, i - 1, x, y)
RECURSIVE DragHit(_, _, _, _)
DragHit(objs, i, x, y) ==
  IF i < 1 THEN 0
  ELSE LET obj == objs[i]
           r == IF obj.type = "circle" THEN obj.radius
                ELSE Rnd(Max(obj.width, obj.height), 2)
       IN  IF obj.fixed THEN DragHit(objs, i - 1, x, y)
           ELSE IF Vec2dist(Vec(x, y), obj.pos) < r + PosScale \div 2 THEN i
           ELSE DragHit(objs, i - 1, x, y)

startDrag(e, x, y) ==
  LET hit == DragHit(e.objects, Len(e.objects), x, y)
  IN  IF hit # 0 THEN [e EXCEPT !.draggedObj = hit] ELSE e

updateDrag(e, x, y) ==
  IF e.draggedObj # 0
  THEN LET d == e.draggedObj
           dx == x - e.objects[d].pos.x
           dy == y - e.objects[d].pos.y
       IN  [e EXCEPT !.objects[d].pos = Vec(x, y),
                     !.objects[d].oldPos = Vec(x - Rnd(dx, 10), y - Rnd(dy, 10))]
  ELSE e

endDrag(e) == [e EXCEPT !.draggedObj = 0]

-----------------------------------------------------------------------------
(* The phases of one sub-step, on the list of objects *)

\* applyForces without the test for the body the drag holds
applyForcesOnHeld(objs, dragged) ==
  [k \in DOMAIN objs |->
     LET obj == objs[k]
     IN  IF obj.fixed THEN obj
         ELSE [obj EXCEPT !.force =
                 Vec(obj.force.x - Rnd(obj.vel.x * MassScale, 100),
                     -GRAVITY * obj.mass - Rnd(obj.vel.y * MassScale, 100))]]
\* applyForces
applyForces(objs, dragged) ==
  [k \in DOMAIN objs |->
     LET obj == objs[k]
     IN  IF obj.fixed \/ k = dragged THEN obj
         ELSE [obj EXCEPT !.force =
                 Vec(obj.force.x - Rnd(obj.vel.x * MassScale, 100),
                     -GRAVITY * obj.mass - Rnd(obj.vel.y * MassScale, 100))]]

\* integrate(dt) for one object, dt = dtNum/dtDen seconds
IntegrateBody(obj, isDragged, dtNum, dtDen) ==
  IF obj.fixed THEN obj
  ELSE IF isDragged THEN [obj EXCEPT !.oldPos = obj.pos, !.oldAngle = obj.angle]
  ELSE LET vel == Vec2sub(obj.pos, obj.oldPos)
           tempPos == obj.pos
           acc == Vec2scale(obj.force, obj.invMass, MassScale * InvScale)
           delta == Vec2add(vel, Vec2scale(acc, dtNum * dtNum, dtDen * dtDen))
           newPos == Vec2add(obj.pos, delta)
           angVel == obj.angle - obj.oldAngle
       IN  [obj EXCEPT !.pos = newPos,
                       !.oldPos = tempPos,
                       !.vel = Vec2scale(Vec2sub(newPos, tempPos), dtDen, dtNum),
                       !.force = Vec(0, 0),
                       !.angle = obj.angle + angVel,
                       !.oldAngle = obj.angle]

\* an integrate without the branch for the body the drag holds
integrateHeldToo(objs, dragged, dtNum, dtDen) ==
  [k \in DOMAIN objs |-> IntegrateBody(objs[k], FALSE, dtNum, dtDen)]

integrate(objs, dragged, dtNum, dtDen) ==
  [k \in DOMAIN objs |-> IntegrateBody(objs[k], k = dragged, dtNum, dtDen)]

\* this.objects.forEach(o => this.updateGeometry(o))
RefreshGeometry(objs) == [k \in DOMAIN objs |-> updateGeometry(objs[k])]

\* a solver that moves body a whether it is fixed or not
NudgeAnyA(objs, a, nudge) ==
  [objs EXCEPT ![a].pos = Vec2add(objs[a].pos, nudge)]
\* if (!bodyA.fixed) bodyA.pos = Vec2.add(bodyA.pos, nudge)
NudgeA(objs, a, nudge) ==
  IF ~objs[a].fixed THEN [objs EXCEPT ![a].pos = Vec2add(objs[a].pos, nudge)]
  ELSE objs

\* a body B that is moved the way body A is
NudgeBAlong(objs, b, nudge) ==
  IF ~objs[b].fixed THEN [objs EXCEPT ![b].pos = Vec2add(objs[b].pos, nudge)]
  ELSE objs
\* if (!bodyB.fixed) bodyB.pos = Vec2.sub(bodyB.pos, nudge)
NudgeB(objs, b, nudge) ==
  IF ~objs[b].fixed THEN [objs EXCEPT ![b].pos = Vec2sub(objs[b].pos, nudge)]
  ELSE objs

\* a nudge of the whole correction for each body, not half of it
NudgeUnshared(objs, a, b, c, currentDist) ==
  Vec2scale(Vec2sub(objs[b].pos, objs[a].pos),
            (currentDist - c.length) * c.stiffness, currentDist * Pct)
\* vec * correction * force, for the constraint c between bodies a and b
Nudge(objs, a, b, c, currentDist) ==
  Vec2scale(Vec2sub(objs[b].pos, objs[a].pos),
            (currentDist - c.length) * c.stiffness, currentDist * 2 * Pct)

\* the body of the forEach once both bodies were found at a and b
SolvePair(objs, a, b, c, currentDist) ==
  IF objs[a].fixed /\ objs[b].fixed THEN objs
  ELSE IF currentDist = 0 THEN objs
  ELSE NudgeB(NudgeA(objs, a, Nudge(objs, a, b, c, currentDist)),
              b, Nudge(objs, a, b, c, currentDist))

\* ConstraintSystem.solve, the body of the forEach for one constraint
SolveOne(objs, map, c) ==
  IF c.bodyA \notin DOMAIN map \/ c.bodyB \notin DOMAIN map THEN objs
  ELSE SolvePair(objs, map[c.bodyA], map[c.bodyB], c,
                 Vec2dist(objs[map[c.bodyA]].pos, objs[map[c.bodyB]].pos))

\* ConstraintSystem.solve: one pass over the constraints, in order
RECURSIVE solve(_, _, _, _)
solve(constraints, map, objs, n) ==
  IF n > Len(constraints) THEN objs
  ELSE solve(constraints, map, SolveOne(objs, map, constraints[n]), n + 1)

-----------------------------------------------------------------------------
(* CollisionSystem.  A manifold names its bodies by index; normal is in      *)
(* NormScale units, depth in length units.  NoManifold stands for both a     *)
(* null result and hasCollision: false.  Projections on an axis are kept in  *)
(* NormScale * length units, so comparing them is exact.                     *)

NoManifold == [hasCollision |-> FALSE]
Infinity == 2000000000

\* projectVertices: <<min, max>> of the projections of the vertices
projectVertices(vertices, axis) ==
  LET proj == [k \in DOMAIN vertices |-> Vec2dot(vertices[k], axis)]
      lo == CHOOSE m \in {proj[k] : k \in DOMAIN proj} :
              \A k \in DOMAIN proj : m <= proj[k]
      hi == CHOOSE m \in {proj[k] : k \in DOMAIN proj} :
              \A k \in DOMAIN proj : m >= proj[k]
  IN  IF DOMAIN vertices = {} THEN << Infinity, -Infinity >> ELSE << lo, hi >>

\* projectCircle
projectCircle(circle, axis) ==
  LET centerProj == Vec2dot(circle.pos, axis)
  IN  << centerProj - circle.radius * NormScale, centerProj + circle.radius * NormScale >>

\* the edge normals of a polygon, axis i for the edge from vertex i
EdgeAxis(vertices, i) ==
  LET v1 == vertices[i]
      v2 == vertices[(i % Len(vertices)) + 1]
  IN  Vec2normalize(Vec2perp(Vec2sub(v2, v1)))

\* One step of the axis loops: given the running [sep, depth, normal] and
\* the two projections on axis, either a separating axis was found (sep)
\* or the least overlap so far is kept.
AxisTest(best, pa, pb, axis) ==
  IF best.sep THEN best
  ELSE IF pa[1] >= pb[2] \/ pb[1] >= pa[2] THEN [best EXCEPT !.sep = TRUE]
  ELSE LET axisDepth == Min(pb[2] - pa[1], pa[2] - pb[1])
       IN  IF axisDepth < best.depth
           THEN [sep |-> FALSE, depth |-> axisDepth, normal |-> axis]
           ELSE best

RECURSIVE PolyAxes(_, _, _, _, _)
\* the loop over the edges of `of`, testing polygon A against polygon B
PolyAxes(of, A, B, i, best) ==
  IF i > Len(of) THEN best
  ELSE LET axis == EdgeAxis(of, i)
       IN  PolyAxes(of, A, B, i + 1,
             AxisTest(best, projectVertices(A, axis), projectVertices(B, axis), axis))

\* normal, flipped where it points against direction
Canonical(normal, direction) ==
  IF Vec2dot(direction, normal) < 0 THEN Vec2mul(normal, -1) ELSE normal

\* circleVsCircle
circleVsCircle(objs, a, b) ==
  LET A == objs[a]
      B == objs[b]
      n == Vec2sub(B.pos, A.pos)
      distSq == Vec2lenSq(n)
      radiusSum == A.radius + B.radius
      dist == Sqrt(distSq)
  IN  IF distSq > radiusSum * radiusSum THEN NoManifold
      ELSE IF distSq = 0
      THEN [bodyA |-> a, bodyB |-> b, normal |-> Vec(NormScale, 0),
            depth |-> radiusSum, hasCollision |-> TRUE]
      ELSE [bodyA |-> a, bodyB |-> b, normal |-> Vec2scale(n, NormScale, dist),
            depth |-> radiusSum - dist, hasCollision |-> TRUE]

\* polygonVsPolygon
polygonVsPolygon(objs, a, b) ==
  LET A == objs[a]
      B == objs[b]
      start == [sep |-> FALSE, depth |-> Infinity, normal |-> Vec(0, 0)]
      afterA == PolyAxes(A.vertices, A.vertices, B.vertices, 1, start)
      afterB == PolyAxes(B.vertices, A.vertices, B.vertices, 1, afterA)
  IN  IF afterB.sep THEN NoManifold
      ELSE [bodyA |-> a, bodyB |-> b,
            normal |-> Canonical(afterB.normal, Vec2sub(B.pos, A.pos)),
            depth |-> Rnd(afterB.depth, NormScale), hasCollision |-> TRUE]

RECURSIVE CircleAxes(_, _, _, _)
\* the loop over the polygon's edges, testing the circle against the polygon
CircleAxes(circle, vertices, i, best) ==
  IF i > Len(vertices) THEN best
  ELSE LET axis == EdgeAxis(vertices, i)
       IN  CircleAxes(circle, vertices, i + 1,
             AxisTest(best, projectCircle(circle, axis),
                      projectVertices(vertices, axis), axis))

RECURSIVE ClosestVertex(_, _, _, _, _)
\* the first vertex at least distance from p, scanning from vertex i
ClosestVertex(vertices, p, i, closest, minDistSq) ==
  IF i > Len(vertices) THEN closest
  ELSE LET distSq == Vec2lenSq(Vec2sub(p, vertices[i]))
       IN  IF distSq < minDistSq
           THEN ClosestVertex(vertices, p, i + 1, vertices[i], distSq)
           ELSE ClosestVertex(vertices, p, i + 1, closest, minDistSq)

\* circleVsPolygon
circleVsPolygon(objs, c, p) ==
  LET circle == objs[c]
      polygon == objs[p]
      start == [sep |-> FALSE, depth |-> Infinity, normal |-> Vec(0, 0)]
      afterEdges == CircleAxes(circle, polygon.vertices, 1, start)
      closestVertex == ClosestVertex(polygon.vertices, circle.pos, 1,
                                     polygon.vertices[1], Infinity)
      axis == Vec2normalize(Vec2sub(closestVertex, circle.pos))
      last == AxisTest(afterEdges, projectCircle(circle, axis),
                       projectVertices(polygon.vertices, axis), axis)
  IN  IF last.sep THEN NoManifold
      ELSE [bodyA |-> c, bodyB |-> p,
            normal |-> Canonical(last.normal, Vec2sub(polygon.pos, circle.pos)),
            depth |-> Rnd(last.depth, NormScale), hasCollision |-> TRUE]

\* detectCollision: dispatch on the two types
detectCollision(objs, a, b) ==
  LET ta == objs[a].type
      tb == objs[b].type
  IN  CASE ta = "circle" /\ tb = "circle" -> circleVsCircle(objs, a, b)
        [] ta = "box" /\ tb = "box" -> polygonVsPolygon(objs, a, b)
        [] ta = "circle" /\ tb = "box" -> circleVsPolygon(objs, a, b)
        [] ta = "box" /\ tb = "circle" -> circleVsPolygon(objs, b, a)
        [] ta = "plane" /\ tb = "box" -> polygonVsPolygon(objs, b, a)
        [] ta = "box" /\ tb = "plane" -> polygonVsPolygon(objs, a, b)
        [] ta = "plane" /\ tb = "circle" -> circleVsPolygon(objs, b, a)
        [] ta = "circle" /\ tb = "plane" -> circleVsPolygon(objs, a, b)
        [] OTHER -> NoManifold

\* a resolution that moves either body by half the depth, whatever its mass
applyResolutionInHalves(objs, m) ==
  LET bodyA == objs[m.bodyA]
      bodyB == objs[m.bodyB]
      separation == Vec2scale(m.normal, m.depth, NormScale)
  IN  IF bodyA.invMass + bodyB.invMass = 0 THEN objs
      ELSE [objs EXCEPT
              ![m.bodyA].pos = IF ~bodyA.fixed
                               THEN Vec2add(bodyA.pos, Vec2scale(separation, -1, 2))
                               ELSE bodyA.pos,
              ![m.bodyB].pos = IF ~bodyB.fixed
                               THEN Vec2add(bodyB.pos, Vec2scale(separation, 1, 2))
                               ELSE bodyB.pos]
\* applyResolution
applyResolution(objs, m) ==
  LET bodyA == objs[m.bodyA]
      bodyB == objs[m.bodyB]
      invMassA == bodyA.invMass
      invMassB == bodyB.invMass
      invMassSum == invMassA + invMassB
      separation == Vec2scale(m.normal, m.depth, NormScale)
      moveA == Vec2scale(separation, -invMassA, invMassSum)
      moveB == Vec2scale(separation, invMassB, invMassSum)
      posA == IF ~bodyA.fixed THEN Vec2add(bodyA.pos, moveA) ELSE bodyA.pos
      posB == IF ~bodyB.fixed THEN Vec2add(bodyB.pos, moveB) ELSE bodyB.pos
      tangent == Vec2normalize(Vec2perp(m.normal))
      velA == Vec2sub(posA, bodyA.oldPos)
      velB == Vec2sub(posB, bodyB.oldPos)
      relVel == Vec2sub(velB, velA)
      tanVel == Rnd(Vec2dot(relVel, tangent), NormScale)
      mu == Min(bodyA.friction, bodyB.friction)
      frictionImpulse == Vec2scale(tangent, tanVel * mu, NormScale * Pct)
      half == Vec2scale(frictionImpulse, 1, 2)
      oldA == IF ~bodyA.fixed THEN Vec2add(bodyA.oldPos, half) ELSE bodyA.oldPos
      oldB == IF ~bodyB.fixed THEN Vec2sub(bodyB.oldPos, half) ELSE bodyB.oldPos
  IN  IF invMassSum = 0 THEN objs
      ELSE [objs EXCEPT ![m.bodyA].pos = posA, ![m.bodyA].oldPos = oldA,
                        ![m.bodyB].pos = posB, ![m.bodyB].oldPos = oldB]

\* The impact filter of resolve: the callback is invoked when the squared
\* relative cached velocity exceeds 0.5 (m/s)^2
Significant(A, B) ==
  2 * Vec2lenSq(Vec2sub(A.vel, B.vel)) > PosScale * PosScale

\* the body of resolve's inner loop for the pair (i, j) with its manifold
ResolvePair(acc, i, j, manifold) ==
  IF acc.objects[i].fixed /\ acc.objects[j].fixed THEN acc
  ELSE IF manifold.hasCollision
  THEN [acc EXCEPT
          !.objects = applyResolution(acc.objects, manifold),
          !.hits = Append(acc.hits, << i, j >>),
          !.calls = IF Significant(acc.objects[i], acc.objects[j])
                    THEN Append(acc.calls, << i, j >>)
                    ELSE acc.calls]
  ELSE acc

\* CollisionSystem.resolve: the pairs i < j in loop order, from pair (i, j)
\* on.  acc holds the objects, the pairs resolved (hits) and the pairs the
\* callback was invoked for (calls).
RECURSIVE resolve(_, _, _)
resolve(acc, i, j) ==
  IF i >= Len(acc.objects) THEN acc
  ELSE IF j > Len(acc.objects) THEN resolve(acc, i + 1, i + 2)
  ELSE resolve(ResolvePair(acc, i, j, detectCollision(acc.objects, i, j)), i, j + 1)

-----------------------------------------------------------------------------
(* FluidSystem on GPGPU.  A fluid record holds the textures by handle        *)
(* (tex: handle -> one Vec per particle) and the two ping-pong states, each  *)
(* naming its `in` and `out` texture.                                        *)

\* a velocity pass that takes a particle lying on the floor for one below it
updateVelOnFloor(pos, vel, uDT, uGravity) ==
  LET vy1 == vel.y - uGravity * uDT
      floor == pos.y <= 0
      vy2 == IF floor THEN Rnd(Abs(vy1) * 6, 10) ELSE vy1
      vx2 == IF floor THEN Rnd(vel.x * 95, 100) ELSE vel.x
      vx3 == IF pos.x < -10 * PosScale \/ pos.x > 10 * PosScale
             THEN Rnd(vx2 * (-8), 10) ELSE vx2
  IN  Vec(vx3, vy2)
\* updateVelSource: the fragment shader of the velocity pass, for one texel
updateVel(pos, vel, uDT, uGravity) ==
  LET vy1 == vel.y - uGravity * uDT
      floor == pos.y < 0
      vy2 == IF floor THEN Rnd(Abs(vy1) * 6, 10) ELSE vy1
      vx2 == IF floor THEN Rnd(vel.x * 95, 100) ELSE vel.x
      vx3 == IF pos.x < -10 * PosScale \/ pos.x > 10 * PosScale
             THEN Rnd(vx2 * (-8), 10) ELSE vx2
  IN  Vec(vx3, vy2)

\* a position pass without the floor and wall clamps
updatePosUnclamped(pos, vel, uDT) ==
  Vec(pos.x + vel.x * uDT, pos.y + vel.y * uDT)
\* updatePosSource: the fragment shader of the position pass, for one texel
updatePos(pos, vel, uDT) ==
  LET x1 == pos.x + vel.x * uDT
      y1 == pos.y + vel.y * uDT
      y2 == IF y1 < 0 THEN 0 ELSE y1
      x2 == IF x1 < -10 * PosScale THEN -10 * PosScale ELSE x1
      x3 == IF x2 > 10 * PosScale THEN 10 * PosScale ELSE x2
  IN  Vec(x3, y2)

\* a run that draws into output.out and leaves the pair as it is
GPGPUrunNoSwap(f, kernel, input0, input1, output, uDT, uGravity) ==
  LET written == [p \in DOMAIN f.tex[input0] |->
                    IF kernel = "updateVel"
                    THEN updateVel(f.tex[input0][p], f.tex[input1][p], uDT, uGravity)
                    ELSE updatePos(f.tex[input0][p], f.tex[input1][p], uDT)]
      target == f[output].out
  IN  [f EXCEPT !.tex[target] = written]
\* GPGPU.run: draw the kernel over every texel into output.out, then swap
\* output.in and output.out.  output is "posState" or "velState".
GPGPUrun(f, kernel, input0, input1, output, uDT, uGravity) ==
  LET written == [p \in DOMAIN f.tex[input0] |->
                    IF kernel = "updateVel"
                    THEN updateVel(f.tex[input0][p], f.tex[input1][p], uDT, uGravity)
                    ELSE updatePos(f.tex[input0][p], f.tex[input1][p], uDT)]
      target == f[output].out
  IN  [f EXCEPT !.tex[target] = written,
                ![output] = [in |-> f[output].out, out |-> f[output].in]]

\* FluidSystem.step(dt, gravity)
FluidStep(f, dt, gravity) ==
  LET f1 == GPGPUrun(f, "updateVel", f.posState.in, f.velState.in, "velState", dt, gravity)
  IN  GPGPUrun(f1, "updatePos", f1.posState.in, f1.velState.in, "posState", dt, gravity)

\* GPGPU.readData: a new array filled from the texture
readData(f, texture) == f.tex[texture]

\* FluidSystem.getParticles
getParticles(f) == readData(f, f.posState.in)

\* The FluidSystem constructor: two states of two zero-filled textures each,
\* then the seed written to posState.in and velState.in
NewFluid(posData, velData) ==
  LET zero == [p \in DOMAIN posData |-> Vec(0, 0)]
  IN  [tex |-> [p1 |-> posData, p2 |-> zero, v1 |-> velData, v2 |-> zero],
       posState |-> [in |-> "p1", out |-> "p2"],
       velState |-> [in |-> "v1", out |-> "v2"]]

-----------------------------------------------------------------------------
(* parseAndExecute.  A script is the sequence of calls its code makes on the *)
(* proxy environment: add, connect (naming a body by the number of the add   *)
(* call that returned it, or by a literal id), and "throw" where the code    *)
(* raises.  A run record holds the engine, the ids of the objects returned   *)
(* by the adds so far and the calls made on the engine.                      *)

NoConfig == [mass |-> 0, material |-> "none", x |-> 0, y |-> 0, width |-> 0,
             height |-> 0, radius |-> 0, fixed |-> FALSE, vx |-> 0, vy |-> 0,
             angle |-> 0, segmentsX |-> 0, segmentsY |-> 0, pinTop |-> FALSE]
\* connect's default `config = {}`
NoConnectConfig == [field \in {} |-> 0]

\* objA?.id || objA: <<"handle", k>> is the object the k-th add returned,
\* anything else is passed as it is
Handle(k) == <<"handle", k>>
RefId(handles, ref) == IF ref[1] = "handle" THEN handles[ref[2]] ELSE ref

\* the run record after the add call cmd returned the engine `added`
AfterAdd(r, cmd, added) ==
  [e |-> added,
   handles |-> Append(r.handles, added.objects[added.ret].id),
   calls |-> Append(r.calls, cmd)]

\* the run record after the connect call cmd, its arguments resolved to ids
AfterConnect(r, cmd, idA, idB) ==
  [e |-> connect(r.e, idA, idB, cmd.config),
   handles |-> r.handles,
   calls |-> Append(r.calls, [op |-> "connect", a |-> idA, b |-> idB,
                              config |-> cmd.config])]

\* a catch block that swallows the fault without a word
CaughtSilently(r) == r
\* catch(e) { console.error(...); this.log("Error: " + e); }
Caught(r) == [r EXCEPT !.e = Elog(r.e, <<"Error">>)]

\* fn(Lab) from call k on; a fault ends the script in the catch block
RECURSIVE RunScript(_, _, _)
RunScript(r, cmds, k) ==
  IF k > Len(cmds) THEN r
  ELSE IF cmds[k].op = "add"
  THEN RunScript(AfterAdd(r, cmds[k], add(r.e, cmds[k].type, cmds[k].config)),
                 cmds, k + 1)
  ELSE IF cmds[k].op = "connect"
  THEN RunScript(AfterConnect(r, cmds[k], RefId(r.handles, cmds[k].a),
                              RefId(r.handles, cmds[k].b)), cmds, k + 1)
  ELSE Caught(r)

\* parseAndExecute(code): reset, then run the script inside try/catch
parseAndExecute(e, cmds) ==
  RunScript([e |-> reset(e), handles |-> << >>, calls |-> << >>], cmds, 1)

-----------------------------------------------------------------------------
(* getState.  A snapshot field is held either as a copy of its own or as a   *)
(* reference to the engine's live structure; View reads a snapshot the way   *)
(* its holder would, following references into the engine as it is now.      *)

\* a field the snapshot holds as a value of its own
Copy(v) == [ref |-> FALSE, val |-> v]

\* a field the snapshot shares with the engine
Live(v) == [ref |-> TRUE, val |-> v]
\* JSON.parse(JSON.stringify(v)): a structure of numbers, strings, booleans
\* and arrays is rebuilt field by field
JSONClone(v) == Copy(v)
\* [...array]
Spread(v) == Copy(v)

getState(e, f) ==
  [time |-> Copy(e.time),
   objects |-> JSONClone(e.objects),
   constraints |-> JSONClone(e.constraints),
   particles |-> Copy(getParticles(f)),
   events |-> Spread(e.logs)]

-----------------------------------------------------------------------------
(* Bounds and inputs of the exploration *)

\* add is explored while the registry holds fewer bodies than this
MaxBodies == 2
\* connect is explored while fewer constraints than this exist
MaxConstraints == 1
\* step() calls per behaviour
MaxFrames == 1
\* step() calls per behaviour of the observed engine
MaxSteps == 2
\* step() calls per behaviour of the fluid-only driver
MaxFluidFrames == 6
\* external log() calls are explored while the log is shorter than this
MaxLogs == 1
\* numbered log() calls per run of the narrating driver
MaxNotes == 53

Cfg(type, over) == [type |-> type, config |-> over @@ NoConfig]

\* (type, config) pairs for add: a rotated box, a heavy moving circle that
\* overlaps it (created three quarter turns round), a plane given a mass
\* and no fixed flag, a pinned 1x1 cloth
BoxInput == Cfg("box", [x |-> 0, y |-> 8, angle |-> 1])
CircleInput == Cfg("circle", [x |-> 4, y |-> 9, vx |-> 10, mass |-> 2 * MassScale,
                             angle |-> 3])
PlaneInput == Cfg("plane", [y |-> 0, mass |-> 5 * MassScale, material |-> "concrete"])
ClothInput == Cfg("cloth", [x |-> 0, y |-> 20, width |-> PosScale, height |-> PosScale,
                            segmentsX |-> 1, segmentsY |-> 1, pinTop |-> TRUE])
AddInputs == { BoxInput, CircleInput, PlaneInput, ClothInput }

\* (idA, idB, config) triples for connect: the first two bodies at their
\* current distance, the same pair as a stiff rod of 2 m and as a stiff link
\* of rest length 0, and an unknown id
ConnectInputs ==
  { [a |-> ObjId(1), b |-> ObjId(2), config |-> NoConnectConfig],
    [a |-> ObjId(2), b |-> ObjId(1), config |-> [length |-> 2 * PosScale, stiffness |-> Pct]],
    [a |-> ObjId(1), b |-> ObjId(2), config |-> [length |-> 0, stiffness |-> Pct]],
    [a |-> ObjId(1), b |-> ObjId(7), config |-> NoConnectConfig] }

\* points for startDrag (one over the box and the circle, one over nothing)
\* and for updateDrag
DragPoints == { Vec(2, 9), Vec(40, 40) }
DragTargets == { Vec(3, 12) }

\* scripts for parseAndExecute and the headless runner: a box over a plane,
\* tied to it; a fixed circle, then a fault before a second add
PlaneBoxScript ==
  << [op |-> "add", type |-> "plane", config |-> [y |-> 0] @@ NoConfig],
     [op |-> "add", type |-> "box",
      config |-> [x |-> 0, y |-> 6, mass |-> 10 * MassScale] @@ NoConfig],
     [op |-> "connect", a |-> Handle(1), b |-> Handle(2), config |-> NoConnectConfig] >>
FaultyScript ==
  << [op |-> "add", type |-> "circle",
      config |-> [x |-> 0, y |-> 9, fixed |-> TRUE, mass |-> 3 * MassScale] @@ NoConfig],
     [op |-> "throw"],
     [op |-> "add", type |-> "box", config |-> NoConfig] >>
\* the box over the plane again, with a fault after the connect
HalfBuiltScript ==
  PlaneBoxScript \o << [op |-> "throw"],
                       [op |-> "add", type |-> "circle", config |-> NoConfig] >>
Scripts == { PlaneBoxScript, FaultyScript, HalfBuiltScript }
\* a circle thrown upwards; a pinned sheet of 4 x 3 cloth particles
TossScript ==
  << [op |-> "add", type |-> "circle",
      config |-> [x |-> 0, y |-> 50, vy |-> 3] @@ NoConfig] >>
SheetScript ==
  << [op |-> "add", type |-> "cloth",
      config |-> [x |-> 0, y |-> 40, width |-> 3 * PosScale, height |-> 2 * PosScale,
                  segmentsX |-> 3, segmentsY |-> 2, pinTop |-> TRUE] @@ NoConfig] >>
\* two free bodies, the second at b, joined by a rigid rod (stiffness 1) of
\* the given rest length
RodScript(b, length) ==
  << [op |-> "add", type |-> "circle",
      config |-> [x |-> 0, y |-> 0, mass |-> 3 * MassScale] @@ NoConfig],
     [op |-> "add", type |-> "box", config |-> [x |-> b.x, y |-> b.y] @@ NoConfig],
     [op |-> "connect", a |-> Handle(1), b |-> Handle(2),
      config |-> [length |-> length, stiffness |-> Pct]] >>
RodEnds == { Vec(x, y) : x \in {-30, 0, 7, 40}, y \in {0, 9, 25} } \ { Vec(0, 0) }
RodLengths == { 1, 10, 20, 55 }
\* two bodies for a collision: a first one around the origin (a box, a
\* heavier circle, a wide fixed box, a plane) and a second one, box or
\* circle, light, heavy or fixed, placed over it, beside it or away from it
PairFirst ==
  { [op |-> "add", type |-> "box", config |-> NoConfig],
    [op |-> "add", type |-> "circle", config |-> [mass |-> 2 * MassScale] @@ NoConfig],
    [op |-> "add", type |-> "box",
     config |-> [fixed |-> TRUE, width |-> 4 * PosScale] @@ NoConfig],
    [op |-> "add", type |-> "plane", config |-> NoConfig] }
PairSecond ==
  { [op |-> "add", type |-> t,
     config |-> [x |-> at.x, y |-> at.y, mass |-> m, fixed |-> f] @@ NoConfig] :
      t \in {"box", "circle"},
      at \in { Vec(6, 0), Vec(0, 8), Vec(3, 4), Vec(-4, -3), Vec(-6, 8), Vec(30, 30) },
      m \in { MassScale, 2 * MassScale }, f \in BOOLEAN }
\* a plane and over it a circle of 0.1 kg, added at rest or with the
\* velocity v
LightScript(v) ==
  << [op |-> "add", type |-> "plane", config |-> NoConfig],
     [op |-> "add", type |-> "circle",
      config |-> [x |-> 2, y |-> 9, mass |-> MassScale \div 10,
                  vx |-> v.x, vy |-> v.y] @@ NoConfig] >>
LightScripts == { LightScript(v) : v \in { Vec(0, 0), Vec(400, 0) } }
\* where the pointer takes a held body: into the air, into the plane
HeldAt == { Vec(3, 12), Vec(3, 3) }
\* cloths of up to MaxSeg by MaxSeg cells, 6 m wide and 12 m high, pinned or
\* not, centred at the origin or beside it
MaxSeg == 3
ClothInputs ==
  { Cfg("cloth", [x |-> x, y |-> 200, width |-> 6 * PosScale,
                  height |-> 12 * PosScale,
                  segmentsX |-> m, segmentsY |-> n, pinTop |-> pin]) :
      x \in {0, 35}, m \in 1..MaxSeg, n \in 1..MaxSeg, pin \in BOOLEAN }
\* a circle at the origin and a box at b, each free or fixed, joined by a
\* constraint: a rigid rod of 1 m, a soft spring of 5.5 m, a link of 2 m of
\* the default stiffness, a link of the default length and stiffness
LinkScript(fixedA, massA, b, fixedB, config) ==
  << [op |-> "add", type |-> "circle",
      config |-> [mass |-> massA, fixed |-> fixedA] @@ NoConfig],
     [op |-> "add", type |-> "box",
      config |-> [x |-> b.x, y |-> b.y, fixed |-> fixedB] @@ NoConfig],
     [op |-> "connect", a |-> Handle(1), b |-> Handle(2), config |-> config] >>
LinkEnds == { Vec(0, 0), Vec(30, 0), Vec(0, -20), Vec(30, 40), Vec(-60, 80) }
LinkConfigs ==
  { [length |-> PosScale, stiffness |-> Pct],
    [length |-> (55 * PosScale) \div 10, stiffness |-> Pct \div 10],
    [length |-> 2 * PosScale], NoConnectConfig }
LinkScripts ==
  { LinkScript(fixedA, massA, b, fixedB, config) :
      fixedA \in BOOLEAN, massA \in { MassScale, 3 * MassScale }, b \in LinkEnds,
      fixedB \in BOOLEAN, config \in LinkConfigs }
\* maxTime of a headless evaluation is explored up to this many
\* DurScale-ths of a frame
MaxDuration == 7
\* code that faults before its first call on the environment
BrokenScript == << [op |-> "throw"] >>

\* seeds of the particle cloud (Math.random): positions in [-5, 5) x [5, 15) m,
\* velocities in [-1, 1) m/s, two particles
Seed(x1, y1, vx1, vy1, x2, y2, vx2, vy2) ==
  [pos |-> << Vec(x1, y1), Vec(x2, y2) >>, vel |-> << Vec(vx1, vy1), Vec(vx2, vy2) >>]
Seeds == { Seed(49, 50, 9, -10, -50, 149, -10, 9) }
\* three clouds for engines that also hold bodies
MixSeeds ==
  { Seed(49, 50, 9, -10, -50, 149, -10, 9), Seed(0, 50, -10, -10, -1, 149, 9, 9),
    Seed(-50, 149, 9, 9, 49, 50, -10, -10) }
FluidSeeds ==
  { Seed(x, y, vx, vy, -x - 1, 199 - y, -vx - 1, -vy - 1) :
      x \in {-50, 0, 49}, y \in {50, 149}, vx \in {-10, 9}, vy \in {-10, 9} }

-----------------------------------------------------------------------------
(* State *)

VARIABLES
  objects,      \* PhysicsEngine.objects
  objectMap,    \* PhysicsEngine.objectMap: id -> index in objects
  constraints,  \* PhysicsEngine.constraints
  time,         \* PhysicsEngine.time
  logs,         \* PhysicsEngine.logs
  draggedObj,   \* PhysicsEngine.draggedObj: index in objects, 0 for null
  idCounter,    \* the module-level idCounter
  fluid,        \* PhysicsEngine.fluidSystem
  pc,           \* position inside step(): "idle" between calls
  sub,          \* the sub-step loop variable s
  iter,         \* the constraint loop variable i
  snapshot,     \* the last value getState returned, as its caller holds it
  lastOp,       \* the call that produced this state
  stepCount,    \* step() calls since the last reset
  frames,       \* step() calls since construction
  history,      \* the add/connect calls since the last reset, while only those happened
  pristine,     \* no step or drag since the last reset
  phaseLog,     \* the phases the current (or last) step() has run
  impact,       \* the pairs the last collision pass resolved and reported
  snapAtReturn, \* what the snapshot read when getState returned it
  nemo          \* the locals of a PhysicsNemo.runSimulation call on this engine

vars == << objects, objectMap, constraints, time, logs, draggedObj, idCounter,
           fluid, pc, sub, iter, snapshot, lastOp, stepCount, frames, history,
           pristine, phaseLog, impact, snapAtReturn, nemo >>

\* the interactive engine as an engine record
Eng == [objects |-> objects, objectMap |-> objectMap, constraints |-> constraints,
        time |-> time, logs |-> logs, draggedObj |-> draggedObj,
        idCounter |-> idCounter, ret |-> 0]

\* a PhysicsEngine right after its constructor ran
FreshEngine ==
  reset([objects |-> << >>, objectMap |-> EmptyMap, constraints |-> << >>,
         time |-> 0, logs |-> << >>, draggedObj |-> 0, idCounter |-> 0, ret |-> 0])

Install(e) ==
  /\ objects' = e.objects
  /\ objectMap' = e.objectMap
  /\ constraints' = e.constraints
  /\ time' = e.time
  /\ logs' = e.logs
  /\ draggedObj' = e.draggedObj
  /\ idCounter' = e.idCounter

NoImpact == [hits |-> << >>, calls |-> << >>]
None == [none |-> TRUE]

\* what a holder of snapshot snap reads, given the engine e and fluid f
Deref(h, live) == IF h.ref THEN live ELSE h.val
View(snap, e, f) ==
  IF snap = None THEN None
  ELSE [time |-> Deref(snap.time, e.time),
        objects |-> Deref(snap.objects, e.objects),
        constraints |-> Deref(snap.constraints, e.constraints),
        particles |-> Deref(snap.particles, getParticles(f)),
        events |-> Deref(snap.events, e.logs)]

\* the state after `new PhysicsEngine()`, the cloud seeded from seeds
Constructed(seeds) ==
  /\ \E seed \in seeds : fluid = NewFluid(seed.pos, seed.vel)
  /\ objects = FreshEngine.objects
  /\ objectMap = FreshEngine.objectMap
  /\ constraints = FreshEngine.constraints
  /\ time = FreshEngine.time
  /\ logs = FreshEngine.logs
  /\ draggedObj = FreshEngine.draggedObj
  /\ idCounter = FreshEngine.idCounter
  /\ pc = "idle" /\ sub = 0 /\ iter = 0
  /\ snapshot = None /\ snapAtReturn = None
  /\ lastOp = [op |-> "new"]
  /\ stepCount = 0 /\ frames = 0
  /\ history = << >> /\ pristine = TRUE
  /\ phaseLog = << >> /\ impact = NoImpact
  /\ nemo = [phase |-> "none"]

Init == Constructed(Seeds)

-----------------------------------------------------------------------------
(* Calls on the interactive engine, between steps *)

Idle == pc = "idle"
StepVars == << pc, sub, iter, phaseLog, impact >>

Add(type, config) ==
  /\ Idle /\ Len(objects) < MaxBodies
  /\ Install(add(Eng, type, config))
  /\ lastOp' = [op |-> "add", type |-> type, config |-> config]
  /\ history' = IF pristine
                THEN Append(history, [op |-> "add", type |-> type, config |-> config])
                ELSE history
  /\ UNCHANGED << nemo, fluid, StepVars, snapshot, snapAtReturn, stepCount, frames, pristine >>

Connect(idA, idB, config) ==
  /\ Idle /\ Len(constraints) < MaxConstraints
  /\ Len(history) < MaxBodies + MaxConstraints
  /\ Install(connect(Eng, idA, idB, config))
  /\ lastOp' = [op |-> "connect", a |-> idA, b |-> idB, config |-> config]
  /\ history' = IF pristine
                THEN Append(history, [op |-> "connect", a |-> idA, b |-> idB,
                                      config |-> config])
                ELSE history
  /\ UNCHANGED << nemo, fluid, StepVars, snapshot, snapAtReturn, stepCount, frames, pristine >>

Reset ==
  /\ Idle
  /\ Install(reset(Eng))
  /\ lastOp' = [op |-> "reset"]
  /\ stepCount' = 0 /\ history' = << >> /\ pristine' = TRUE
  /\ impact' = NoImpact
  /\ UNCHANGED << nemo, fluid, pc, sub, iter, phaseLog, snapshot, snapAtReturn, frames >>

\* the engine, and the calls made on it, after a script run returned r
Ran(r) == Install(r.e) /\ history' = r.calls

ParseAndExecute(cmds) ==
  /\ Idle
  /\ Ran(parseAndExecute(Eng, cmds))
  /\ lastOp' = [op |-> "parseAndExecute", script |-> cmds]
  /\ stepCount' = 0 /\ pristine' = TRUE
  /\ impact' = NoImpact
  /\ UNCHANGED << nemo, fluid, pc, sub, iter, phaseLog, snapshot, snapAtReturn, frames >>

Log ==
  /\ Idle /\ Len(logs) < MaxLogs
  /\ Install(Elog(Eng, <<"AI Analysis">>))
  /\ lastOp' = [op |-> "log"]
  /\ UNCHANGED << nemo, fluid, StepVars, snapshot, snapAtReturn, stepCount, frames,
                  history, pristine >>

\* log(`AI Analysis: ${finalText}`) by a driver that numbers its texts, each
\* one more than the number of the line the log ends with
NextNote == IF logs = << >> THEN 1 ELSE logs[Len(logs)].msg[2] + 1
Note ==
  /\ Idle /\ NextNote <= MaxNotes
  /\ Install(Elog(Eng, <<"AI Analysis", NextNote>>))
  /\ lastOp' = [op |-> "log", msg |-> <<"AI Analysis", NextNote>>]
  /\ UNCHANGED << nemo, fluid, StepVars, snapshot, snapAtReturn, stepCount, frames,
                  history, pristine >>

StartDrag(p) ==
  /\ Idle
  /\ Install(startDrag(Eng, p.x, p.y))
  /\ lastOp' = [op |-> "startDrag", at |-> p]
  /\ pristine' = FALSE /\ history' = << >>
  /\ UNCHANGED << nemo, fluid, StepVars, snapshot, snapAtReturn, stepCount, frames >>

UpdateDrag(p) ==
  /\ Idle
  /\ Install(updateDrag(Eng, p.x, p.y))
  /\ lastOp' = [op |-> "updateDrag"]
  /\ pristine' = FALSE /\ history' = << >>
  /\ UNCHANGED << nemo, fluid, StepVars, snapshot, snapAtReturn, stepCount, frames >>

EndDrag ==
  /\ Idle
  /\ Install(endDrag(Eng))
  /\ lastOp' = [op |-> "endDrag"]
  /\ pristine' = FALSE /\ history' = << >>
  /\ UNCHANGED << nemo, fluid, StepVars, snapshot, snapAtReturn, stepCount, frames >>

\* getState(), where the application calls it: after the constructor, after
\* parseAndExecute and after step.  The observer keeps the first snapshot it
\* takes (getState leaves the engine as it is).
GetState ==
  /\ Idle /\ snapshot = None
  /\ lastOp.op \in {"new", "parseAndExecute", "step"}
  /\ snapshot' = getState(Eng, fluid)
  /\ snapAtReturn' = View(snapshot', Eng, fluid)
  /\ lastOp' = [op |-> "getState"]
  /\ UNCHANGED << nemo, objects, objectMap, constraints, time, logs, draggedObj,
                  idCounter, fluid, StepVars, stepCount, frames, history, pristine >>

\* PhysicsNemo.runSimulation: a second engine is constructed (its constructor
\* resets), the script is parsed and executed on it and it is stepped; of
\* all this the interactive engine shares the idCounter only.
NemoRun(cmds) ==
  /\ Idle
  /\ idCounter' = parseAndExecute(FreshEngine, cmds).e.idCounter
  /\ lastOp' = [op |-> "runSimulation"]
  /\ UNCHANGED << nemo, objects, objectMap, constraints, time, logs, draggedObj, fluid,
                  StepVars, snapshot, snapAtReturn, stepCount, frames, history,
                  pristine >>

-----------------------------------------------------------------------------
(* step(), phase by phase.  Nothing else runs between the phases of a step: *)
(* the engine is called from a single thread and step() is synchronous.     *)

\* a clock that advances once per sub-step
TickPerSubStep(t) == t + subSteps * DT
\* this.time += DT
Tick(t) == t + DT

EngineVarsButObjects == << objectMap, constraints, logs, draggedObj, idCounter >>
Ghosts == << snapshot, snapAtReturn, lastOp, stepCount, frames, history, pristine,
             nemo >>

\* step(): subDt, this.time += DT
StepStart ==
  /\ Idle /\ frames < MaxFrames
  /\ time' = Tick(time)
  /\ pc' = "fluid"
  /\ phaseLog' = << >>
  /\ lastOp' = [op |-> "step"]
  /\ stepCount' = stepCount + 1 /\ frames' = frames + 1
  /\ pristine' = FALSE /\ history' = << >>
  /\ UNCHANGED << nemo, objects, EngineVarsButObjects, fluid, sub, iter, impact,
                  snapshot, snapAtReturn >>

\* this.fluidSystem.step(DT, GRAVITY), then s = 0
PhaseFluid ==
  /\ pc = "fluid"
  /\ fluid' = FluidStep(fluid, DT, GRAVITY)
  /\ sub' = 0
  /\ pc' = IF 0 < subSteps THEN "forces" ELSE "idle"
  /\ phaseLog' = Append(phaseLog, "fluid")
  /\ UNCHANGED << objects, EngineVarsButObjects, time, iter, impact, Ghosts >>

PhaseForces ==
  /\ pc = "forces"
  /\ objects' = applyForces(objects, draggedObj)
  /\ pc' = "integrate"
  /\ phaseLog' = Append(phaseLog, "forces")
  /\ UNCHANGED << EngineVarsButObjects, time, fluid, sub, iter, impact, Ghosts >>

PhaseIntegrate ==
  /\ pc = "integrate"
  /\ objects' = integrate(objects, draggedObj, DT, subSteps)
  /\ pc' = "geometry"
  /\ phaseLog' = Append(phaseLog, "integrate")
  /\ UNCHANGED << EngineVarsButObjects, time, fluid, sub, iter, impact, Ghosts >>

PhaseGeometry ==
  /\ pc = "geometry"
  /\ objects' = RefreshGeometry(objects)
  /\ iter' = 0
  /\ pc' = IF 0 < constraintIterations THEN "solve" ELSE "collide"
  /\ phaseLog' = Append(phaseLog, "geometry")
  /\ UNCHANGED << EngineVarsButObjects, time, fluid, sub, impact, Ghosts >>

\* a solver phase that runs one pass per sub-step
PhaseSolveOnce ==
  /\ pc = "solve"
  /\ objects' = solve(constraints, objectMap, objects, 1)
  /\ iter' = iter + 1
  /\ pc' = "collide"
  /\ phaseLog' = Append(phaseLog, "solve")
  /\ UNCHANGED << EngineVarsButObjects, time, fluid, sub, impact, Ghosts >>
\* one turn of `for (i < constraintIterations) ConstraintSystem.solve(...)`
PhaseSolve ==
  /\ pc = "solve"
  /\ objects' = solve(constraints, objectMap, objects, 1)
  /\ iter' = iter + 1
  /\ pc' = IF iter + 1 < constraintIterations THEN "solve" ELSE "collide"
  /\ phaseLog' = Append(phaseLog, "solve")
  /\ UNCHANGED << EngineVarsButObjects, time, fluid, sub, impact, Ghosts >>

\* the registry and the impact record after a collision pass returned r
Resolved(r) ==
  /\ objects' = r.objects
  /\ impact' = [hits |-> r.hits, calls |-> r.calls]

\* a collision pass whose callback writes an impact line to the event log
PhaseCollideLogging ==
  /\ pc = "collide"
  /\ Resolved(resolve([objects |-> objects, hits |-> << >>, calls |-> << >>], 1, 2))
  /\ logs' = IF impact'.calls = << >> THEN logs ELSE Elog(Eng, <<"Impact">>).logs
  /\ sub' = sub + 1
  /\ pc' = IF sub + 1 < subSteps THEN "forces" ELSE "idle"
  /\ phaseLog' = Append(phaseLog, "collide")
  /\ UNCHANGED << objectMap, constraints, draggedObj, idCounter, time, fluid, iter,
                  Ghosts >>
PhaseCollide ==
  /\ pc = "collide"
  /\ Resolved(resolve([objects |-> objects, hits |-> << >>, calls |-> << >>], 1, 2))
  /\ sub' = sub + 1
  /\ pc' = IF sub + 1 < subSteps THEN "forces" ELSE "idle"
  /\ phaseLog' = Append(phaseLog, "collide")
  /\ UNCHANGED << EngineVarsButObjects, time, fluid, iter, Ghosts >>

Step ==
  \/ StepStart \/ PhaseFluid \/ PhaseForces \/ PhaseIntegrate
  \/ PhaseGeometry \/ PhaseSolve \/ PhaseCollide

\* the phases of one step() in the order step() runs them
SubStepSchedule ==
  << "forces", "integrate", "geometry" >>
    \o [k \in 1..constraintIterations |-> "solve"] \o << "collide" >>
RECURSIVE Repeat(_, _)
Repeat(seq, n) == IF n = 0 THEN << >> ELSE seq \o Repeat(seq, n - 1)
Schedule == << "fluid" >> \o Repeat(SubStepSchedule, subSteps)

\* constraintIterations passes of ConstraintSystem.solve (no pass moves
\* anything in an empty registry)
RECURSIVE SolvePasses(_, _, _, _)
SolvePasses(cons, map, objs, n) ==
  IF n = 0 \/ objs = << >> THEN objs
  ELSE SolvePasses(cons, map, solve(cons, map, objs, 1), n - 1)

\* one turn of the sub-step loop of step(), on a collision record
SubStep(acc, cons, map, dragged) ==
  resolve([objects |-> SolvePasses(cons, map,
                         RefreshGeometry(integrate(applyForces(acc.objects, dragged),
                                                   dragged, DT, subSteps)),
                         constraintIterations),
           hits |-> << >>, calls |-> << >>], 1, 2)

RECURSIVE SubSteps(_, _, _, _, _)
SubSteps(acc, cons, map, dragged, n) ==
  IF n = 0 \/ acc.objects = << >> THEN acc
  ELSE SubSteps(SubStep(acc, cons, map, dragged), cons, map, dragged, n - 1)

\* a step() that returns at once on an empty registry
FrameUnlessEmpty ==
  /\ time' = Tick(time)
  /\ fluid' = IF objects = << >> THEN fluid ELSE FluidStep(fluid, DT, GRAVITY)
  /\ Resolved(SubSteps([objects |-> objects] @@ NoImpact, constraints, objectMap,
                       draggedObj, subSteps))
  /\ sub' = subSteps /\ iter' = constraintIterations /\ pc' = "idle"
  /\ phaseLog' = Schedule
  /\ lastOp' = [op |-> "step"]
  /\ stepCount' = stepCount + 1 /\ frames' = frames + 1
  /\ pristine' = FALSE /\ history' = << >>
  /\ UNCHANGED << EngineVarsButObjects, snapshot, snapAtReturn >>
\* step() from entry to return
Frame ==
  /\ time' = Tick(time)
  /\ fluid' = FluidStep(fluid, DT, GRAVITY)
  /\ Resolved(SubSteps([objects |-> objects] @@ NoImpact, constraints, objectMap,
                       draggedObj, subSteps))
  /\ sub' = subSteps /\ iter' = constraintIterations /\ pc' = "idle"
  /\ phaseLog' = Schedule
  /\ lastOp' = [op |-> "step"]
  /\ stepCount' = stepCount + 1 /\ frames' = frames + 1
  /\ pristine' = FALSE /\ history' = << >>
  /\ UNCHANGED << EngineVarsButObjects, snapshot, snapAtReturn >>

\* step() as one action, for drivers that do not look inside a step
StepAll(limit) == Idle /\ frames < limit /\ Frame /\ UNCHANGED nemo

-----------------------------------------------------------------------------
(* PhysicsNemo.runSimulation, call by call on its own engine.  maxTime is    *)
(* given in DurScale-ths of a frame; nemo holds the locals of the call       *)
(* (steps, the loop variable i, telemetry) and, once it returned, the        *)
(* summary it returned.  compute_time_ms, a wall-clock reading, is left out. *)

DurScale == 2
\* const dt = 1/60, the length of a frame, in the unit of the clock
NemoDt == 1

\* Math.ceil(a / b) for b > 0
Floor(a, b) == a \div b
Ceil(a, b) == -((-a) \div b)

\* array.slice(-n)
SliceFirst(seq, n) == SubSeq(seq, 1, Min(n, Len(seq)))
Slice(seq, n) == SubSeq(seq, Max(1, Len(seq) - n + 1), Len(seq))

\* a length in hundredths of a metre, as toFixed(2) prints it
ToFixed2Len(v) == v * (100 \div PosScale)

\* the forEach over getState().objects from object k on: the initial capture
\* (first) sets maxY to the body's y, the update in the loop raises maxY
\* and maxVel where the body exceeds them
RECURSIVE Track(_, _, _, _)
Track(telemetry, objs, k, first) ==
  IF k > Len(objs) THEN telemetry
  ELSE LET o == objs[k]
           t == IF o.id \in DOMAIN telemetry THEN telemetry[o.id]
                ELSE [maxY |-> -Infinity, maxVel |-> 0]
           v == Sqrt(o.vel.x * o.vel.x + o.vel.y * o.vel.y)
       IN  Track(MapSet(telemetry, o.id,
                   IF first THEN [maxY |-> o.pos.y, maxVel |-> 0]
                   ELSE [maxY |-> Max(t.maxY, o.pos.y), maxVel |-> Max(t.maxVel, v)]),
                 objs, k + 1, first)

\* the summary runSimulation returns
Summary(e, telemetry) ==
  [simulated_time_s |-> ToFixed2(e.time),
   objects |-> [k \in DOMAIN e.objects |->
                  [id |-> e.objects[k].id, type |-> e.objects[k].type,
                   final_pos |-> Vec(ToFixed2Len(e.objects[k].pos.x),
                                     ToFixed2Len(e.objects[k].pos.y)),
                   max_height |-> ToFixed2Len(telemetry[e.objects[k].id].maxY),
                   max_velocity |-> ToFixed2Len(telemetry[e.objects[k].id].maxVel)]],
   events |-> Slice(e.logs, 10)]

\* new PhysicsEngine(), parseAndExecute(code), the initial capture, steps
NemoStart(cmds, maxTime) ==
  /\ Idle /\ nemo.phase = "none"
  /\ \E seed \in Seeds : fluid' = NewFluid(seed.pos, seed.vel)
  /\ Ran(parseAndExecute(FreshEngine, cmds))
  /\ nemo' = [phase |-> "running", maxTime |-> maxTime,
              steps |-> Ceil(maxTime, DurScale * NemoDt), i |-> 0,
              telemetry |-> Track(EmptyMap, objects', 1, TRUE),
              y0 |-> [k \in DOMAIN objects' |-> objects'[k].pos.y]]
  /\ lastOp' = [op |-> "runSimulation"]
  /\ stepCount' = 0 /\ frames' = 0 /\ pristine' = TRUE
  /\ impact' = NoImpact
  /\ UNCHANGED << pc, sub, iter, phaseLog, snapshot, snapAtReturn >>

\* one turn of `for (i < steps)`: engine.step(), then the telemetry update
NemoStep ==
  /\ Idle /\ nemo.phase = "running" /\ nemo.i < nemo.steps
  /\ Frame
  /\ nemo' = [nemo EXCEPT !.i = nemo.i + 1,
                          !.telemetry = Track(nemo.telemetry, objects', 1, FALSE)]

\* the loop has ended: build the summary and return it
NemoReturn ==
  /\ Idle /\ nemo.phase = "running" /\ ~(nemo.i < nemo.steps)
  /\ nemo' = [summary |-> Summary(Eng, nemo.telemetry)]
               @@ [nemo EXCEPT !.phase = "returned"]
  /\ UNCHANGED << objects, objectMap, constraints, time, logs, draggedObj,
                  idCounter, fluid, StepVars, snapshot, snapAtReturn, lastOp,
                  stepCount, frames, history, pristine >>

-----------------------------------------------------------------------------
(* Specifications: the engine under different drivers *)

\* The interactive engine: scenario building, dragging and stepping
Next ==
  \/ \E in \in AddInputs : Add(in.type, in.config)
  \/ \E in \in ConnectInputs : Connect(in.a, in.b, in.config)
  \/ Reset
  \/ \E cmds \in Scripts : ParseAndExecute(cmds)
  \/ \E p \in DragPoints : StartDrag(p)
  \/ \E p \in DragTargets : UpdateDrag(p)
  \/ EndDrag
  \/ Step

Spec == Init /\ [][Next]_vars

\* Scenario building on the interactive engine while headless evaluations
\* construct and populate engines of their own
NextIds ==
  \/ \E in \in {BoxInput, PlaneInput} : Add(in.type, in.config)
  \/ \E in \in ConnectInputs : Connect(in.a, in.b, in.config)
  \/ Reset
  \/ \E cmds \in Scripts : ParseAndExecute(cmds)
  \/ \E cmds \in Scripts \cup {BrokenScript} : NemoRun(cmds)

SpecIds == Init /\ [][NextIds]_vars

\* The engine under an observer that takes a snapshot, keeps it and writes
\* to the log, while a scenario is loaded, extended, dragged and run
NextObserved ==
  \/ Add(CircleInput.type, CircleInput.config)
  \/ Connect(ObjId(1), ObjId(2), NoConnectConfig)
  \/ Reset
  \/ ParseAndExecute(PlaneBoxScript)
  \/ Log
  \/ StartDrag(Vec(2, 9))
  \/ \E p \in DragTargets : UpdateDrag(p)
  \/ EndDrag
  \/ GetState
  \/ StepAll(MaxSteps)

SpecObserved == Init /\ [][NextObserved]_vars

\* The particle cloud alone: frames on an empty registry, from every seed
NextFluid == StepAll(MaxFluidFrames)

InitFluid == Constructed(FluidSeeds)

SpecFluid == InitFluid /\ [][NextFluid]_vars

\* The engine under a driver that narrates: numbered lines written to the
\* log before and after a frame, and resets
NextLog ==
  \/ Note
  \/ StepAll(MaxFrames)
  \/ Reset

SpecLog == Init /\ [][NextLog]_vars

\* A headless evaluation from call to return; the caller runs it to the end
NextNemo ==
  \/ \E cmds \in {PlaneBoxScript, HalfBuiltScript, TossScript, SheetScript} :
       \E maxTime \in 0..MaxDuration : NemoStart(cmds, maxTime)
  \/ NemoStep
  \/ NemoReturn

SpecNemo == Init /\ [][NextNemo]_vars

\* The engine inside the first sub-step of the first step() on the scenario
\* a script run r built: at phase `at`, after i solver passes and n phases
InStep(r, at, i, n) ==
  /\ objects = r.e.objects /\ objectMap = r.e.objectMap
  /\ constraints = r.e.constraints /\ logs = r.e.logs
  /\ idCounter = r.e.idCounter /\ draggedObj = r.e.draggedObj
  /\ history = r.calls
  /\ \E seed \in Seeds : fluid = NewFluid(seed.pos, seed.vel)
  /\ time = Tick(r.e.time)
  /\ pc = at /\ sub = 0 /\ iter = i
  /\ snapshot = None /\ snapAtReturn = None
  /\ lastOp = [op |-> "step"]
  /\ stepCount = 1 /\ frames = 1 /\ pristine = FALSE
  /\ phaseLog = SubSeq(Schedule, 1, n)
  /\ impact = NoImpact
  /\ nemo = [phase |-> "none"]

\* The constraint loop of a sub-step alone, on two free bodies and a rod:
\* the engine stands at the loop's entry and makes its passes
InitSolve ==
  \E b \in RodEnds, length \in RodLengths :
    InStep(parseAndExecute(FreshEngine, RodScript(b, length)), "solve", 0, 4)

NextSolve == PhaseSolve

SpecSolve == InitSolve /\ [][NextSolve]_vars

\* CollisionSystem.applyResolution on the manifold detectCollision finds
\* for the pair (1, 2)
ApplyResolution ==
  /\ pc = "collide" /\ impact = NoImpact
  /\ detectCollision(objects, 1, 2).hasCollision
  /\ objects' = applyResolution(objects, detectCollision(objects, 1, 2))
  /\ impact' = [hits |-> << << 1, 2 >> >>, calls |-> << >>]
  /\ UNCHANGED << EngineVarsButObjects, time, fluid, pc, sub, iter, phaseLog, Ghosts >>

\* Detection and resolution alone, on a pair of bodies as add made them
InitResolve ==
  \E first \in PairFirst, second \in PairSecond :
    InStep(parseAndExecute(FreshEngine, << first, second >>), "collide",
           constraintIterations, 4 + constraintIterations)

NextResolve == ApplyResolution

SpecResolve == InitResolve /\ [][NextResolve]_vars

\* A light body loaded at rest or in flight, taken with the pointer, moved,
\* let go and stepped
NextVel ==
  \/ \E cmds \in LightScripts \cup {PlaneBoxScript} : ParseAndExecute(cmds)
  \/ StartDrag(Vec(2, 9))
  \/ \E p \in HeldAt : UpdateDrag(p)
  \/ EndDrag
  \/ StepAll(MaxSteps)

SpecVel == Init /\ [][NextVel]_vars

\* Cloths added to an empty registry or next to a body, also after a
\* headless evaluation moved the id counter
NextCloth ==
  \/ \E in \in ClothInputs \cup {BoxInput, CircleInput} : Add(in.type, in.config)
  \/ NemoRun(BrokenScript)
  \/ Reset

SpecCloth == Init /\ [][NextCloth]_vars

\* Engines constructed with different clouds, loaded with different
\* scenarios, dragged and stepped
MixScripts == { PlaneBoxScript, TossScript, LightScript(Vec(400, 0)) }

InitMix == Constructed(MixSeeds)

NextMix ==
  \/ \E cmds \in MixScripts : ParseAndExecute(cmds)
  \/ StartDrag(Vec(2, 9))
  \/ \E p \in HeldAt : UpdateDrag(p)
  \/ EndDrag
  \/ StepAll(MaxSteps)

SpecMix == InitMix /\ [][NextMix]_vars

\* The constraint loop of a sub-step on one constraint between two bodies,
\* free or fixed, apart or in one place
InitLink ==
  \E cmds \in LinkScripts :
    InStep(parseAndExecute(FreshEngine, cmds), "solve", 0, 4)

SpecLink == InitLink /\ [][NextSolve]_vars

-----------------------------------------------------------------------------
(* Properties *)

\* C1: every body whose fixed flag is set has inverse mass 0 and inverse
\* inertia 0, however it was added (fixed: true, a plane, a pinned cloth
\* particle) and whatever mass its config named.
C1_FixedHasNoInverseMass ==
  \A i \in DOMAIN objects :
    objects[i].fixed => objects[i].invMass = 0 /\ objects[i].invInertia = 0

\* a plane whose config named a mass and a pinned cloth particle, after a step
C1_Witness ==
  /\ pc = "idle" /\ frames > 0
  /\ \E i, j \in DOMAIN objects :
       /\ objects[i].fixed /\ objects[i].mass > 0 /\ objects[i].width = 1000 * PosScale
       /\ objects[j].fixed /\ objects[j].type = "circle"

\* C2: no part of step() (integrator, constraint solver, collision
\* resolution, geometry refresh) changes the position of a fixed body.
C2_StepKeepsFixedInPlace ==
  [][(pc # "idle" \/ pc' # "idle") =>
       \A i \in DOMAIN objects :
         objects[i].fixed => objects'[i].pos = objects[i].pos]_vars

\* a finished step whose last collision pass resolved a pair with a fixed
\* body, in a registry where a constraint ties a fixed body to a free one
C2_Witness ==
  /\ pc = "idle" /\ frames > 0
  /\ \E k \in DOMAIN impact.hits :
       objects[impact.hits[k][1]].fixed \/ objects[impact.hits[k][2]].fixed
  /\ \E k \in DOMAIN constraints :
       /\ constraints[k].bodyA \in DOMAIN objectMap
       /\ constraints[k].bodyB \in DOMAIN objectMap
       /\ objects[objectMap[constraints[k].bodyA]].fixed
       /\ ~objects[objectMap[constraints[k].bodyB]].fixed

\* C3: within one engine no two bodies share an id and no two constraints
\* share an id, while other engines are constructed and run in the process.
C3_UniqueIds ==
  /\ \A i, j \in DOMAIN objects : i # j => objects[i].id # objects[j].id
  /\ \A i, j \in DOMAIN constraints : i # j => constraints[i].id # constraints[j].id

\* the add and connect calls of h made on a newly constructed engine
Replay(h) ==
  RunScript([e |-> FreshEngine, handles |-> << >>, calls |-> << >>], h, 1).e

\* count, pos, oldPos and vel of the bodies, in order
Kinematics(objs) ==
  [k \in DOMAIN objs |->
     [pos |-> objs[k].pos, oldPos |-> objs[k].oldPos, vel |-> objs[k].vel]]

\* C4: while only add and connect have been called since the last reset (or
\* parseAndExecute), the bodies are as many, and have the pos, oldPos and
\* vel, as after the same calls on a newly constructed engine.
C4_ReplayDeterminism ==
  pristine => Kinematics(objects) = Kinematics(Replay(history).objects)

\* a scenario rebuilt by two adds and a connect after a step and a reset
C4_Witness ==
  /\ pristine /\ frames > 0 /\ lastOp.op = "connect"
  /\ Len(history) >= 3 /\ Len(objects) >= 2 /\ Len(constraints) >= 1

\* C5: the clock reads DT times the number of step() calls since the last
\* reset or parseAndExecute: each step adds exactly DT, reset and
\* parseAndExecute set it to 0, and add, connect, the drag calls, getState
\* and log leave it alone.
C5_ClockCountsSteps == time = stepCount * DT

\* two steps into a run, with a body held by the mouse, a line written to
\* the log and a snapshot taken
C5_Witness ==
  /\ stepCount = 2 /\ time = 2 * DT
  /\ draggedObj # 0 /\ snapshot # None
  /\ \E k \in DOMAIN logs : logs[k].msg = <<"AI Analysis">>

\* C6: reset() leaves the objects array, the object map and the constraints
\* empty, the clock at 0 and no drag target, and does not touch the
\* particle cloud (its textures and which of them is current).
C6_ResetEmptiesEngine ==
  [][lastOp'.op = "reset" =>
       /\ objects' = << >> /\ objectMap' = EmptyMap /\ constraints' = << >>
       /\ time' = 0 /\ draggedObj' = 0
       /\ fluid' = fluid]_vars

\* right after a reset that followed a step: the cloud has moved on from
\* its seed and its second position texture is the current one
C6_Witness ==
  /\ lastOp.op = "reset" /\ frames > 0
  /\ fluid.posState.in = "p2"
  /\ \E seed \in Seeds : getParticles(fluid) # seed.pos

\* the order of the phases the claim states, written out
C7_Order ==
  << "fluid" >> \o
  Repeat(<< "forces", "integrate", "geometry",
            "solve", "solve", "solve", "solve", "solve", "collide" >>, 8)

\* C7: a step() runs the fluid step once, first, and then 8 sub-steps, each
\* of them forces, integration, geometry refresh, 5 solver passes and one
\* collision pass, in this order; a finished step has run all of them.
C7_FixedSchedule ==
  /\ Len(phaseLog) <= Len(C7_Order)
  /\ phaseLog = SubSeq(C7_Order, 1, Len(phaseLog))
  /\ (pc = "idle" /\ frames > 0) => phaseLog = C7_Order
  /\ pc # "idle" => Len(phaseLog) < Len(C7_Order)

\* a finished step over a registry with bodies and a constraint
C7_Witness ==
  /\ pc = "idle" /\ lastOp.op = "step" /\ Len(phaseLog) = 73
  /\ Len(objects) >= 2 /\ constraints # << >>

\* C8: every particle of the cloud is at y >= 0 and -10 <= x <= 10 (metres),
\* in the seeded state and after every step.
C8_ParticlesInBounds ==
  \A p \in DOMAIN getParticles(fluid) :
    /\ getParticles(fluid)[p].y >= 0
    /\ getParticles(fluid)[p].x >= -10 * PosScale
    /\ getParticles(fluid)[p].x <= 10 * PosScale

\* a particle lying on the floor while another one sits on a wall
C8_Witness ==
  /\ frames > 0
  /\ \E p, q \in DOMAIN getParticles(fluid) :
       /\ getParticles(fluid)[p].y = 0
       /\ Abs(getParticles(fluid)[q].x) = 10 * PosScale

\* C9: what a snapshot returned by getState() reads does not change when
\* the engine is mutated afterwards.
C9_SnapshotIsIndependent == View(snapshot, Eng, fluid) = snapAtReturn

\* a snapshot of a loaded scenario, read after the engine's clock, bodies,
\* constraints, log and particles have all become different
C9_Witness ==
  /\ snapshot # None
  /\ snapAtReturn.objects # << >> /\ snapAtReturn.constraints # << >>
  /\ snapAtReturn.events # << >>
  /\ snapAtReturn.time # time /\ snapAtReturn.objects # objects
  /\ snapAtReturn.constraints # constraints /\ snapAtReturn.events # logs
  /\ snapAtReturn.particles # getParticles(fluid)

\* C10: connect with an id the object map does not hold changes nothing:
\* bodies, map, constraints, log, clock, drag target and the next id.
C10_UnknownConnectIsNoOp ==
  [][(/\ lastOp'.op = "connect"
      /\ \/ lastOp'.a \notin DOMAIN objectMap
         \/ lastOp'.b \notin DOMAIN objectMap) =>
       UNCHANGED << objects, objectMap, constraints, logs, time, draggedObj,
                    idCounter >>]_vars

\* right after a connect of a body of the registry to an id it never issued
C10_Witness ==
  /\ lastOp.op = "connect"
  /\ lastOp.a \in DOMAIN objectMap /\ lastOp.b \notin DOMAIN objectMap
  /\ Len(objects) >= 2 /\ idCounter >= 2

\* C11: a connect that creates a constraint gives it the supplied length
\* when the caller supplied one (0 included) and the distance of the two
\* bodies otherwise; afterwards no call but reset and parseAndExecute, and no
\* phase of step(), changes the rest length of a constraint.
C11_RestLengthFixedAtCreation ==
  [][/\ (lastOp'.op = "connect" /\ Len(constraints') = Len(constraints) + 1) =>
          constraints'[Len(constraints')].length =
            IF "length" \in DOMAIN lastOp'.config
            THEN lastOp'.config.length
            ELSE Vec2dist(objects[objectMap[lastOp'.a]].pos,
                          objects[objectMap[lastOp'.b]].pos)
     /\ lastOp'.op \notin {"reset", "parseAndExecute"} =>
          \A k \in DOMAIN constraints :
            /\ k \in DOMAIN constraints'
            /\ constraints'[k].length = constraints[k].length]_vars

\* the position of the first fault of a script, 0 for a script without one
C12_FaultAt(cmds) ==
  IF \E k \in DOMAIN cmds : cmds[k].op = "throw"
  THEN CHOOSE k \in DOMAIN cmds :
         cmds[k].op = "throw" /\ \A j \in 1..(k - 1) : cmds[j].op # "throw"
  ELSE 0

\* the commands of kind op that a script runs before its first fault
C12_Before(cmds, op) ==
  SelectSeq(SubSeq(cmds, 1, C12_FaultAt(cmds) - 1), LAMBDA c : c.op = op)

\* C12: when the script of parseAndExecute faults after k commands, the call
\* returns with the engine between calls, the registry holding one body per
\* add among the k commands (where and as its config said), the constraint
\* list one constraint per connect among them, exactly one Error entry in
\* the log, as its last entry, and step() can be called.
C12_FaultLeavesPartialScenario ==
  (lastOp.op = "parseAndExecute" /\ C12_FaultAt(lastOp.script) # 0) =>
    /\ pc = "idle"
    /\ Len(objects) = Len(C12_Before(lastOp.script, "add"))
    /\ \A i \in DOMAIN objects :
         /\ objects[i].pos.x = C12_Before(lastOp.script, "add")[i].config.x
         /\ objects[i].id \in DOMAIN objectMap /\ objectMap[objects[i].id] = i
    /\ Len(constraints) = Len(C12_Before(lastOp.script, "connect"))
    /\ logs # << >> /\ logs[Len(logs)].msg = <<"Error">>
    /\ Cardinality({i \in DOMAIN logs : logs[i].msg = <<"Error">>}) = 1
    /\ (frames < MaxFrames => ENABLED StepStart)

\* right after a script that faulted after two adds and a connect
C12_Witness ==
  /\ lastOp.op = "parseAndExecute" /\ C12_FaultAt(lastOp.script) = 4
  /\ Len(objects) = 2 /\ Len(constraints) = 1 /\ Len(logs) = 3

\* C13: the log never holds more than 50 entries; a line appended to a log
\* of fewer than 50 is added at its end, a line appended to a log of 50
\* takes the place of the oldest, the other 49 keeping their order; so the
\* log of a driver that numbers its lines 1, 2, ... n holds the lines
\* n - min(50, n) + 1 .. n in order.
C13_LogKeepsNewest50 ==
  [][lastOp'.op = "log" =>
       /\ Len(logs') <= 50
       /\ logs' = (IF Len(logs) = 50 THEN Tail(logs) ELSE logs)
                    \o << [t |-> ToFixed2(time), msg |-> lastOp'.msg] >>
       /\ Len(logs') = Min(50, lastOp'.msg[2])
       /\ \A i \in DOMAIN logs' :
            logs'[i].msg[2] = lastOp'.msg[2] - Len(logs') + i]_vars

\* a full log whose oldest lines have been dropped, some of them written
\* before a frame and some after
C13_Witness ==
  /\ lastOp.op = "log" /\ Len(logs) = 50
  /\ logs[1].msg[2] = 3 /\ logs[50].msg[2] = 52
  /\ logs[1].t = 0 /\ logs[50].t = ToFixed2(DT)

\* C14: an add or connect call appends one log line for every body and for
\* every constraint it creates, each tagged with the clock at the call.
C14_EveryCreationIsLogged ==
  [][lastOp'.op \in {"add", "connect"} =>
       /\ Len(logs') - Len(logs) =
            (Len(objects') - Len(objects)) + (Len(constraints') - Len(constraints))
       /\ SubSeq(logs', 1, Len(logs)) = logs
       /\ \A k \in (Len(logs) + 1)..Len(logs') : logs'[k].t = ToFixed2(time)]_vars

\* C15: the time tags of the log never decrease from an entry to the next,
\* whatever the order of add, log, step, reset and parseAndExecute calls.
C15_LogTagsNeverDecrease ==
  \A i, j \in DOMAIN logs : i <= j => logs[i].t <= logs[j].t

\* a log written at three different clock values: a line before the first
\* frame, a body added after it and another after the second
C15_Witness ==
  /\ Len(logs) >= 3
  /\ logs[1].t = 0 /\ logs[2].t = ToFixed2(DT) /\ logs[3].t = ToFixed2(2 * DT)
  /\ logs[1].msg = <<"AI Analysis">> /\ logs[3].msg[1] = "Added"

\* what holds of a headless evaluation while it runs and after it returned
C16_Running ==
  nemo.phase \in {"running", "returned"} =>
    /\ nemo.i <= nemo.steps /\ stepCount = nemo.i
    /\ nemo.steps * DT * DurScale >= nemo.maxTime
    /\ (nemo.steps - 1) * DT * DurScale < nemo.maxTime
    /\ \A k \in DOMAIN objects :
         /\ nemo.telemetry[objects[k].id].maxY >= objects[k].pos.y
         /\ nemo.telemetry[objects[k].id].maxY >= nemo.y0[k]
\* what holds of the summary a headless evaluation returned
C16_Returned ==
  nemo.phase = "returned" =>
    /\ nemo.i = nemo.steps
    /\ nemo.summary.simulated_time_s = ToFixed2(nemo.steps * DT)
    /\ Len(nemo.summary.events) = Min(10, Len(logs))
    /\ \A j \in DOMAIN nemo.summary.events :
         nemo.summary.events[j] = logs[Len(logs) - Len(nemo.summary.events) + j]
    /\ Len(nemo.summary.objects) = Len(objects)
    /\ \A k \in DOMAIN objects :
         /\ nemo.summary.objects[k].max_height >= nemo.summary.objects[k].final_pos.y
         /\ nemo.summary.objects[k].max_height >= ToFixed2Len(nemo.y0[k])
\* C16: a headless evaluation of duration D makes exactly ceil(D / DT)
\* step() calls on its engine and then returns (every move of a running
\* evaluation is the next of these steps or, after the last one, the
\* return); it reports that number of steps times DT as simulated time, the
\* last 10 entries of the log (all of them when there are fewer) in order as
\* events, and for every body a maximum height that is at least the body's
\* y at the start and after every step, so at least the final y it reports.
C16_HeadlessEvaluation ==
  [][/\ C16_Running' /\ C16_Returned'
     /\ nemo.phase = "running" =>
          \/ /\ nemo.i < nemo.steps /\ lastOp'.op = "step"
             /\ nemo'.phase = "running" /\ nemo'.i = nemo.i + 1
             /\ nemo'.steps = nemo.steps
          \/ /\ nemo.i = nemo.steps /\ nemo'.phase = "returned"
             /\ nemo'.i = nemo.i /\ nemo'.steps = nemo.steps]_vars

\* an evaluation of 2.5 frames that has returned after 3 steps, of a sheet
\* whose 12 particles left 12 lines in the log, one of which has fallen
\* below the height it started at
C16_Witness ==
  /\ nemo.phase = "returned" /\ nemo.maxTime = 5 /\ nemo.steps = 3
  /\ Len(logs) = 12 /\ Len(nemo.summary.events) = 10
  /\ \E k \in DOMAIN objects :
       nemo.summary.objects[k].max_height > nemo.summary.objects[k].final_pos.y

\* the distance error of the first constraint: | distance - rest length |
C17_Error(objs) ==
  Abs(Vec2dist(objs[objectMap[constraints[1].bodyA]].pos,
               objs[objectMap[constraints[1].bodyB]].pos) - constraints[1].length)

\* C17: with one constraint of stiffness 1 between two free bodies at a
\* distance above 0 and nothing else acting, no solve pass makes the distance
\* error larger, and after the 5 passes of a sub-step the distance is the
\* rest length to within 0.2 m (two units of the position grid).
C17_RodConverges ==
  [][pc = "solve" =>
       /\ C17_Error(objects') <= C17_Error(objects)
       /\ pc' = "collide" => C17_Error(objects') <= 2]_vars

\* the fifth pass done on a rod that started 4 m too long
C17_Witness ==
  /\ pc = "collide" /\ iter = 5
  /\ constraints[1].length = 10 /\ constraints[1].stiffness = Pct
  /\ ~objects[1].fixed /\ ~objects[2].fixed
  /\ history[2].config.x = 40 /\ history[2].config.y = 25
  /\ C17_Error(objects) <= 2

\* the displacement of body k over a transition, along the axis n, in
\* NormScale-ths of a length unit
C18_Along(k, n) == Vec2dot(Vec2sub(objects'[k].pos, objects[k].pos), n)

\* the interval body obj covers on the axis n, from its position
C18_Extent(obj, n) ==
  IF obj.type = "circle" THEN projectCircle(obj, n)
  ELSE projectVertices(updateGeometry(obj).vertices, n)

\* the overlap of bodies a and b of objs on the axis n
C18_Overlap(objs, a, b, n) ==
  Min(C18_Extent(objs[b], n)[2] - C18_Extent(objs[a], n)[1],
      C18_Extent(objs[a], n)[2] - C18_Extent(objs[b], n)[1])

\* what the claim says of a resolution of the manifold m
C18_Split(m) ==
  LET invMassA == objects[m.bodyA].invMass
      invMassB == objects[m.bodyB].invMass
      invMassSum == invMassA + invMassB
  IN  IF invMassSum = 0
      THEN \A k \in {m.bodyA, m.bodyB} :
             /\ objects'[k].pos = objects[k].pos
             /\ objects'[k].oldPos = objects[k].oldPos
      ELSE /\ Abs(-C18_Along(m.bodyA, m.normal) * invMassSum
                    - m.depth * invMassA * NormScale) <= NormScale * invMassSum
           /\ Abs(C18_Along(m.bodyB, m.normal) * invMassSum
                    - m.depth * invMassB * NormScale) <= NormScale * invMassSum
           /\ Abs(C18_Along(m.bodyB, m.normal) - C18_Along(m.bodyA, m.normal)
                    - m.depth * NormScale) <= NormScale
           /\ Abs(C18_Overlap(objects', m.bodyA, m.bodyB, m.normal)) <= NormScale

\* C18: applied to a manifold of depth p, the resolution moves body A by
\* p * invMassA / (invMassA + invMassB) against the normal and body B by
\* p * invMassB / (invMassA + invMassB) along it, p in all, and leaves the
\* two bodies without overlap on the manifold's axis (each to within one
\* unit of the position grid); where both inverse masses are 0 it changes
\* neither position nor old position.
C18_ResolutionSplitsDepth ==
  [][impact'.hits # << >> => C18_Split(detectCollision(objects, 1, 2))]_vars

\* two circles of 2 kg and 1 kg that overlapped by 0.5 m, moved apart by a
\* third and two thirds of it
C18_Witness ==
  /\ impact.hits = << << 1, 2 >> >>
  /\ objects[1].invMass = InvScale \div 2 /\ objects[2].invMass = InvScale
  /\ history[2].config.x = 3 /\ history[2].config.y = 4
  /\ objects[1].pos = Vec(-1, -1) /\ objects[2].pos = Vec(5, 7)

\* the cached velocities a twin state is given
C19_Velocities == { Vec(0, 0), Vec(400, 0) }

\* the registry objs with the cached velocity of body k set to v
C19_WithVel(objs, k, v) == [objs EXCEPT ![k].vel = v]

\* n sub-steps of step() from the collision record acc: the registry they
\* leave and every invocation of the collision callback on the way
RECURSIVE C19_SubSteps(_, _, _)
C19_Collect(acc, n, calls) == C19_SubSteps(acc, n, calls \o acc.calls)
C19_SubSteps(acc, n, calls) ==
  IF n = 0 \/ acc.objects = << >> THEN [objects |-> acc.objects, calls |-> calls]
  ELSE C19_Collect(SubStep(acc, constraints, objectMap, draggedObj), n - 1, calls)

\* step() on the registry objs, the rest of the engine as it is
C19_Step(objs) == C19_SubSteps([objects |-> objs] @@ NoImpact, subSteps, << >>)

\* a step() call, from entry to return
C19_StepCall == pc = "idle" /\ pc' = "idle" /\ frames' = frames + 1

\* positions and old positions of a registry
C19_Places(objs) == [i \in DOMAIN objs |-> << objs[i].pos, objs[i].oldPos >>]

\* the invocations of calls on pairs that body k is not in
C19_Without(calls, k) == SelectSeq(calls, LAMBDA c : c[1] # k /\ c[2] # k)

\* step() run on this state and on its twin
C19_Twin(here, twin) ==
  /\ here.objects = objects'
  /\ C19_Places(twin.objects) = C19_Places(here.objects)
  /\ twin.calls = here.calls

\* C19: the cached velocity is for reporting only: a state and a state
\* that differs from it in the cached velocity of one body alone have, after
\* step(), the same position and old position for every body, and step()
\* invokes the collision callback for the same pairs in both.
C19_CachedVelocityIsReportingOnly ==
  [][C19_StepCall =>
       \A k \in DOMAIN objects : \A v \in C19_Velocities :
         C19_Twin(C19_Step(objects), C19_Step(C19_WithVel(objects, k, v)))]_vars

\* step() run on this state and on a twin that differs in the cached
\* velocity of the held body k
C19_HeldTwin(here, twin, k) ==
  /\ here.objects = objects'
  /\ C19_WithVel(twin.objects, k, here.objects[k].vel) = here.objects
  /\ C19_Without(twin.calls, k) = C19_Without(here.calls, k)

\* C19 as amended: the cached velocity is read by applyForces (the air drag
\* of a body that is neither fixed nor held by the drag) and by the impact
\* filter of the collision pass.  A state and a state that differs from it
\* in the cached velocity of one fixed or held body alone are, after step(),
\* again the same but for that cached velocity, and step() invokes the
\* collision callback for the same pairs without that body in both.
C19_HeldVelocityIsReportingOnly ==
  [][C19_StepCall =>
       \A k \in DOMAIN objects : \A v \in C19_Velocities :
         (objects[k].fixed \/ k = draggedObj) =>
           C19_HeldTwin(C19_Step(objects), C19_Step(C19_WithVel(objects, k, v)), k)]_vars

\* a step() returned that pushed the held body, taken into the plane, out
\* of it, the body still caching the velocity it was added with
C19_Witness ==
  /\ pc = "idle" /\ lastOp.op = "step"
  /\ draggedObj # 0 /\ objects[draggedObj].vel = Vec(400, 0)
  /\ objects[draggedObj].pos.x = 3
  /\ objects[draggedObj].pos.y > 3 /\ objects[draggedObj].pos.y < 12
  /\ \E i \in DOMAIN objects : objects[i].fixed

\* the angles of the bodies the call add(type, config) creates: the
\* config's angle (0 where it names none), and 0 for each particle of a cloth
C20_Created(type, config) ==
  IF type = "cloth"
  THEN [k \in 1..((IF config.segmentsX # 0 THEN config.segmentsX ELSE 10) + 1)
                 * ((IF config.segmentsY # 0 THEN config.segmentsY ELSE 10) + 1) |-> 0]
  ELSE << config.angle >>

\* the angles of the bodies the calls of a script create, from call k on
RECURSIVE C20_CreatedBy(_, _)
C20_CreatedBy(calls, k) ==
  IF k > Len(calls) THEN << >>
  ELSE IF calls[k].op = "add"
  THEN C20_Created(calls[k].type, calls[k].config) \o C20_CreatedBy(calls, k + 1)
  ELSE C20_CreatedBy(calls, k + 1)

C20_Angles(objs) == [i \in DOMAIN objs |-> objs[i].angle]

\* C20: the engine never drives rotation: a body has the angle add created
\* it with (whatever that angle is) from its creation on, through add,
\* connect, every phase of step(), drags and collisions, and its old angle
\* equals its angle in every state, so its implicit angular velocity is 0.
C20_RotationNeverDriven ==
  [][/\ \A i \in DOMAIN objects' : objects'[i].oldAngle = objects'[i].angle
     /\ lastOp'.op \notin {"reset", "parseAndExecute"} =>
          /\ Len(objects') >= Len(objects)
          /\ \A i \in DOMAIN objects : objects'[i].angle = objects[i].angle
     /\ lastOp'.op = "add" =>
          C20_Angles(objects') =
            C20_Angles(objects) \o C20_Created(lastOp'.type, lastOp'.config)
     /\ lastOp'.op = "parseAndExecute" =>
          C20_Angles(objects') = C20_CreatedBy(history', 1)]_vars

\* a step() returned whose last collision pass moved a free box created a
\* quarter turn round, while the pointer held another body
C20_Witness ==
  /\ pc = "idle" /\ lastOp.op = "step" /\ draggedObj # 0
  /\ \E h \in DOMAIN impact.hits : \E i \in { impact.hits[h][1], impact.hits[h][2] } :
       /\ objects[i].type = "box" /\ ~objects[i].fixed /\ i # draggedObj
       /\ objects[i].angle = 1 /\ objects[i].oldAngle = 1
  /\ objects[draggedObj].angle = 3 /\ objects[draggedObj].oldAngle = 3

\* particle (row, col) of a cloth of segX columns of cells whose particles
\* follow the first `base` bodies of the registry objs
C21_Particle(objs, base, segX, row, col) == objs[base + row * (segX + 1) + col + 1]

\* constraint c joins the grid particles p and q of the registry, at the
\* distance they were created at
C21_Joins(c, p, q) ==
  /\ c.bodyA = p.id /\ c.bodyB = q.id
  /\ objects'[objectMap'[c.bodyA]] = p /\ objects'[objectMap'[c.bodyB]] = q
  /\ c.length = Abs(q.pos.x - p.pos.x) + Abs(q.pos.y - p.pos.y)

\* what the claim says of the call add('cloth', config) on this engine
C21_Grid(config, m, n, base) ==
  /\ Len(objects') = base + (m + 1) * (n + 1)
  /\ SubSeq(objects', 1, base) = objects
  /\ Len(constraints') = Len(constraints) + m * (n + 1) + n * (m + 1)
  /\ SubSeq(constraints', 1, Len(constraints)) = constraints
  /\ \A row \in 0..n : \A col \in 0..m :
       LET p == C21_Particle(objects', base, m, row, col)
       IN  /\ p.type = "circle"
           /\ p.pos = Vec(config.x - config.width \div 2 + col * (config.width \div m),
                          config.y + config.height \div 2 - row * (config.height \div n))
           /\ config.pinTop => (p.fixed <=> row = 0)
  /\ \A k \in (Len(constraints) + 1)..Len(constraints') :
       \E row \in 0..n : \E col \in 0..m :
         \/ /\ col < m
            /\ C21_Joins(constraints'[k], C21_Particle(objects', base, m, row, col),
                         C21_Particle(objects', base, m, row, col + 1))
         \/ /\ row < n
            /\ C21_Joins(constraints'[k], C21_Particle(objects', base, m, row, col),
                         C21_Particle(objects', base, m, row + 1, col))
  /\ \A k, l \in (Len(constraints) + 1)..Len(constraints') :
       (/\ constraints'[k].bodyA = constraints'[l].bodyA
        /\ constraints'[k].bodyB = constraints'[l].bodyB) => k = l
  /\ add(Eng, "cloth", config).objects = objects'
  /\ add(Eng, "cloth", config).ret = base + 1

\* C21: add('cloth', config) with segmentsX = m >= 1 and segmentsY = n >= 1
\* adds exactly (m+1)(n+1) circles, laid out row by row on the grid, and
\* exactly m(n+1) + n(m+1) constraints, each joining two horizontally or
\* vertically adjacent particles (no pair twice) with the spacing they were
\* created at as rest length; it returns the particle of row 0, column 0;
\* with pinTop exactly the particles of row 0 are fixed.
C21_ClothIsAGrid ==
  [][(lastOp'.op = "add" /\ lastOp'.type = "cloth") =>
       C21_Grid(lastOp'.config, lastOp'.config.segmentsX, lastOp'.config.segmentsY,
                Len(objects))]_vars

\* a pinned cloth of 3 by 2 cells added next to a body that has the id the
\* cloth's first particle gets
C21_Witness ==
  /\ lastOp.op = "add" /\ lastOp.type = "cloth" /\ lastOp.config.pinTop
  /\ lastOp.config.segmentsX = 3 /\ lastOp.config.segmentsY = 2
  /\ Len(objects) = 13 /\ Len(constraints) = 17
  /\ objects[1].type = "box" /\ objects[2].id = objects[1].id
  /\ objects[5].fixed /\ ~objects[6].fixed

\* the fluid system f after k step() calls of an engine
RECURSIVE C22_Cloud(_, _)
C22_Cloud(f, k) == IF k = 0 THEN f ELSE C22_Cloud(FluidStep(f, DT, GRAVITY), k - 1)

\* the cloud of the seed after k step() calls of an engine that never held
\* a body
C22_CloudOf(seed, k) == C22_Cloud(NewFluid(seed.pos, seed.vel), k)

\* the registry of the engine e after k step() calls
RECURSIVE C22_Bodies(_, _)
C22_Bodies(e, k) ==
  IF k = 0 THEN e.objects
  ELSE C22_Bodies([e EXCEPT !.objects =
                     SubSteps([objects |-> e.objects] @@ NoImpact, e.constraints,
                              e.objectMap, e.draggedObj, subSteps).objects], k - 1)

\* the registry k step() calls after the script was run on an engine
\* without a cloud
C22_BodiesOf(cmds, k) == C22_Bodies(parseAndExecute(FreshEngine, cmds).e, k)

\* the constraints of the engine the script was run on
C22_LinksOf(cmds) == parseAndExecute(FreshEngine, cmds).e.constraints

C23_Drawn(kernel, pos, vel) ==
  [p \in DOMAIN pos |->
     IF kernel = "updateVel" THEN updateVel(pos[p], vel[p], DT, GRAVITY)
     ELSE updatePos(pos[p], vel[p], DT)]

\* the pair with its two textures exchanged
C23_Swapped(pair) == [in |-> pair.out, out |-> pair.in]

\* what the claim says of a fluid step from the fluid system f to g
C23_Step(f, g) ==
  /\ f.velState.out \notin { f.posState.in, f.velState.in }
  /\ g.tex[f.velState.out] =
       C23_Drawn("updateVel", f.tex[f.posState.in], f.tex[f.velState.in])
  /\ g.velState = C23_Swapped(f.velState)
  /\ f.posState.out \notin { f.posState.in, g.velState.in }
  /\ g.tex[f.posState.out] =
       C23_Drawn("updatePos", f.tex[f.posState.in], g.tex[g.velState.in])
  /\ g.posState = C23_Swapped(f.posState)
  /\ g.tex[f.posState.in] = f.tex[f.posState.in]
  /\ g.tex[f.velState.in] = f.tex[f.velState.in]
  /\ getParticles(g) = g.tex[f.posState.out]

\* C23: in every fluid step the velocity pass reads the pre-step position
\* and velocity textures and writes the other velocity texture, and the
\* velocity pair is swapped; the position pass reads the pre-step position
\* and the velocity this step wrote and writes the other position texture,
\* and the position pair is swapped; no pass writes a texture it reads (the
\* textures read keep their contents); getParticles then reads the texture
\* the position pass wrote.
C23_PingPong == [][fluid' # fluid => C23_Step(fluid, fluid')]_vars

\* after an odd number of steps both pairs are the other way round than
\* constructed, and the particles have moved
C23_Witness ==
  /\ frames = 3 /\ pc = "idle"
  /\ fluid.posState = [in |-> "p2", out |-> "p1"]
  /\ fluid.velState = [in |-> "v2", out |-> "v1"]
  /\ fluid.tex["p2"] # fluid.tex["p1"] /\ fluid.tex["v2"] # fluid.tex["v1"]

\* the hit test of the claim: the distance from p to the body's position is
\* less than its pick radius (radius, or half the larger side) plus 0.5
C24_Under(obj, p) ==
  2 * Vec2dist(p, obj.pos) <
    (IF obj.type = "circle" THEN 2 * obj.radius ELSE Max(obj.width, obj.height))
      + PosScale

\* the non-fixed bodies under p, by their place in the registry
C24_Hits(p) == { i \in DOMAIN objects : ~objects[i].fixed /\ C24_Under(objects[i], p) }

\* C24: startDrag(x, y) makes the most recently added of the non-fixed
\* bodies under (x, y) the drag target; a fixed body is never taken, even a
\* newer one under the point; where no non-fixed body is under the point the
\* drag target stays what it was.  The call changes nothing else.
C24_StartDragPicksNewestFree ==
  [][lastOp'.op = "startDrag" =>
       /\ draggedObj' = IF C24_Hits(lastOp'.at) = {} THEN draggedObj
                        ELSE CHOOSE i \in C24_Hits(lastOp'.at) :
                               \A j \in C24_Hits(lastOp'.at) : j <= i
       /\ draggedObj' # 0 => ~objects[draggedObj'].fixed
       /\ objects' = objects]_vars

\* a startDrag over a free body and a newer plane took the free body
C24_Witness ==
  /\ lastOp.op = "startDrag" /\ draggedObj = 1
  /\ Len(objects) = 2 /\ objects[2].fixed /\ C24_Under(objects[2], lastOp.at)
  /\ C24_Under(objects[1], lastOp.at)

\* body i is an endpoint of no constraint
C25_Unlinked(i) ==
  \A k \in DOMAIN constraints :
    objects[i].id \notin { constraints[k].bodyA, constraints[k].bodyB }

\* the collision pass of this transition resolved no pair with body i
C25_Untouched(i) ==
  \A h \in DOMAIN impact'.hits : i \notin { impact'.hits[h][1], impact'.hits[h][2] }

\* what applyForces and integrate do to a body that is neither fixed nor
\* held: gravity and air drag, then the Verlet update over a sub-step
C25_Forced(obj) ==
  Vec(obj.force.x - Rnd(obj.vel.x * MassScale, 100),
      -GRAVITY * obj.mass - Rnd(obj.vel.y * MassScale, 100))
C25_Moved(obj) ==
  Vec2add(Vec2add(obj.pos, Vec2sub(obj.pos, obj.oldPos)),
          Vec2scale(Vec2scale(obj.force, obj.invMass, MassScale * InvScale),
                    DT * DT, subSteps * subSteps))

\* C25: in every sub-step the body the drag holds gets no force and is not
\* moved by the integrator, which sets its old position to its position and
\* its old angle to its angle; held, unconstrained and in no resolved pair,
\* it keeps its position through the whole step.  Once endDrag() has cleared
\* the drag target, every non-fixed body, the released one included, gets
\* gravity and drag and is integrated.
C25_HeldBodyIsNotIntegrated ==
  [][/\ (pc = "forces" /\ draggedObj # 0) =>
          objects'[draggedObj].force = objects[draggedObj].force
     /\ (pc = "integrate" /\ draggedObj # 0) =>
          /\ objects'[draggedObj].pos = objects[draggedObj].pos
          /\ objects'[draggedObj].oldPos = objects[draggedObj].pos
          /\ objects'[draggedObj].oldAngle = objects[draggedObj].angle
     /\ (/\ pc # "idle" /\ draggedObj # 0
         /\ C25_Unlinked(draggedObj) /\ (pc = "collide" => C25_Untouched(draggedObj))) =>
          objects'[draggedObj].pos = objects[draggedObj].pos
     /\ lastOp'.op = "endDrag" => draggedObj' = 0
     /\ \A i \in DOMAIN objects :
          (~objects[i].fixed /\ i # draggedObj) =>
            /\ pc = "forces" => objects'[i].force = C25_Forced(objects[i])
            /\ pc = "integrate" =>
                 /\ objects'[i].pos = C25_Moved(objects[i])
                 /\ objects'[i].oldPos = objects[i].pos]_vars

\* the integrator has just moved a body that was held at (0.3, 1.2) and let
\* go before the step
C25_Witness ==
  /\ pc = "geometry" /\ sub = 0 /\ draggedObj = 0
  /\ \E i \in DOMAIN objects :
       /\ ~objects[i].fixed /\ objects[i].oldPos = Vec(3, 12)
       /\ objects[i].pos.y < 12

\* the displacement of body k over this transition
C26_Shift(k) == Vec2sub(objects'[k].pos, objects[k].pos)

\* n is the component, rounded to the position grid, of the vector along
\* `along` (one component of the vector from A to B) of length
\* stiffness * 0.5 * (d - length)
C26_Half(n, along, c, d) ==
  2 * Abs(n * 2 * Pct * d - along * (d - c.length) * c.stiffness) <= 2 * Pct * d

\* what the claim says of a pass over the constraint c
C26_Pass(c) ==
  IF c.bodyA \notin DOMAIN objectMap \/ c.bodyB \notin DOMAIN objectMap
  THEN objects' = objects
  ELSE LET a == objectMap[c.bodyA]
           b == objectMap[c.bodyB]
           d == Vec2dist(objects[a].pos, objects[b].pos)
           vec == Vec2sub(objects[b].pos, objects[a].pos)
       IN  IF d = 0 \/ (objects[a].fixed /\ objects[b].fixed)
           THEN objects' = objects
           ELSE /\ IF objects[a].fixed THEN C26_Shift(a) = Vec(0, 0)
                   ELSE /\ C26_Half(C26_Shift(a).x, vec.x, c, d)
                        /\ C26_Half(C26_Shift(a).y, vec.y, c, d)
                /\ IF objects[b].fixed THEN C26_Shift(b) = Vec(0, 0)
                   ELSE /\ C26_Half(C26_Shift(b).x, -vec.x, c, d)
                        /\ C26_Half(C26_Shift(b).y, -vec.y, c, d)
                /\ (~objects[a].fixed /\ ~objects[b].fixed) =>
                     /\ C26_Shift(b) = Vec(-C26_Shift(a).x, -C26_Shift(a).y)
                     /\ Vec2add(objects'[a].pos, objects'[b].pos)
                          = Vec2add(objects[a].pos, objects[b].pos)

\* C26: a solve pass over a constraint whose endpoints are at distance d
\* moves neither endpoint if d = 0, if an id is unknown or if both are
\* fixed; otherwise it moves each non-fixed endpoint along the line through
\* the endpoints by stiffness * 0.5 * (d - restLength) towards the other
\* (away from it when d < restLength) and no fixed endpoint, so that two
\* non-fixed endpoints move by opposite vectors about an unchanged midpoint,
\* whatever their masses.
C26_PassMovesEachEndHalfway ==
  [][pc = "solve" => C26_Pass(constraints[1])]_vars

\* after the first pass: the free circle of 3 kg, 5 m from the fixed box on
\* a rod of 1 m, has moved 2 m towards it; the box has stayed
C26_Witness ==
  /\ pc = "solve" /\ iter = 1
  /\ constraints[1].length = PosScale /\ constraints[1].stiffness = Pct
  /\ ~objects[1].fixed /\ objects[1].mass = 3 * MassScale
  /\ objects[1].pos = Vec(12, 16)
  /\ objects[2].fixed /\ objects[2].pos = Vec(30, 40)

\* the cached vertex list of a box is the one its position and angle give
C27_Fresh(obj) == obj.vertices = updateGeometry(obj).vertices

\* the collision pass from the pair (i, j) on reads no stale vertex list: in
\* each pair it tests (not two fixed bodies) every box has the corners of
\* its current position, earlier resolutions of the pass included
RECURSIVE C27_PassReadsFresh(_, _, _)
C27_PassReadsFresh(acc, i, j) ==
  IF i >= Len(acc.objects) THEN TRUE
  ELSE IF j > Len(acc.objects) THEN C27_PassReadsFresh(acc, i + 1, i + 2)
  ELSE /\ ~(acc.objects[i].fixed /\ acc.objects[j].fixed) =>
            \A k \in {i, j} : acc.objects[k].type = "box" => C27_Fresh(acc.objects[k])
       /\ C27_PassReadsFresh(
            ResolvePair(acc, i, j, detectCollision(acc.objects, i, j)), i, j + 1)

\* C27: whenever the collision detection of a step() reads the cached
\* vertex list of a box, the list holds the four corners of the box at its
\* current position and angle: nothing writes the position of a box between
\* its last geometry refresh and the read.
C27_VerticesAreFreshWhenRead ==
  pc = "collide" =>
    C27_PassReadsFresh([objects |-> objects, hits |-> << >>, calls |-> << >>], 1, 2)

\* the body an add has just appended, and the velocity its config asked for
C28_Added == objects'[Len(objects')]
C28_Asked == Vec(lastOp'.config.vx, lastOp'.config.vy)

\* what the first integrate of a step() makes of a body, gravity and drag
\* aside (no force on it): it is called with DT / subSteps
C28_FirstSubStep(obj) ==
  IntegrateBody([obj EXCEPT !.force = Vec(0, 0)], FALSE, DT, subSteps)

C29_Vel(f) == readData(f, f.velState.in)

\* C29: at the start of every velocity pass each particle is at y >= 0 and
\* -10 <= x <= 10, so the pass takes neither its floor branch nor its wall
\* branch: a step lowers a particle's vy by gravity * dt and leaves its vx.
C29_NoReflection ==
  [][fluid' # fluid =>
       \A p \in DOMAIN getParticles(fluid) :
         /\ getParticles(fluid)[p].y >= 0
         /\ getParticles(fluid)[p].x >= -10 * PosScale
         /\ getParticles(fluid)[p].x <= 10 * PosScale
         /\ C29_Vel(fluid')[p].x = C29_Vel(fluid)[p].x
         /\ C29_Vel(fluid')[p].y = C29_Vel(fluid)[p].y - GRAVITY * DT]_vars

\* after two steps or more, a particle lying on the floor against the wall
\* its vx points at, still falling: the position pass clamped it there
C29_Witness ==
  /\ lastOp.op = "step" /\ frames >= 2
  /\ \E p \in DOMAIN getParticles(fluid) :
       /\ getParticles(fluid)[p].y = 0
       /\ \/ getParticles(fluid)[p].x = 10 * PosScale /\ C29_Vel(fluid)[p].x > 0
          \/ getParticles(fluid)[p].x = -10 * PosScale /\ C29_Vel(fluid)[p].x < 0
       /\ C29_Vel(fluid)[p].y < -2 * GRAVITY * DT

\* a transition inside step(): its entry, or a phase of a step under way
C30_InStep == frames' = frames + 1 \/ pc # "idle"

\* the lines add, the script-error handler and the external log calls write
C30_Writers == {"Added", "Error", "AI Analysis"}

====
